---- MODULE Spec2Model ----
(***************************************************************************)
(* Recurrence expansion and schedule-conflict logic of the AIVA planner:   *)
(* the tasks table of DatabaseManager, the schedule queries that expand    *)
(* weekly recurring items into dated occurrences, and the event creation   *)
(* and edit handlers that check a candidate against those occurrences.     *)
(*                                                                         *)
(* Dates are <<year, month, day>>, times are <<hour, minute, second>>.     *)
(* A TEXT column holding a timestamp is a record [kind, s]: kind "null"    *)
(* is SQL NULL, kind "bad" is the text 'not-a-date', kind "iso" is the     *)
(* text YYYY-MM-DDTHH:MM:SS, s being its fourteen digits in order (the     *)
(* separators stand at the same places in every such text and decide no    *)
(* comparison).  Timestamps carrying a UTC offset are outside the model.   *)
(***************************************************************************)
EXTENDS Integers, Sequences, FiniteSets, TLC

VARIABLES tasks, nextId, last, timer, job

vars == <<tasks, nextId, last, timer, job>>

(***************************************************************************)
(* Calendar arithmetic of datetime.date, as the schedule queries use it.   *)
(***************************************************************************)
IsLeap(y) == y % 4 = 0 /\ (y % 100 # 0 \/ y % 400 = 0)

DaysInMonth(y, m) ==
    IF m = 2 THEN (IF IsLeap(y) THEN 29 ELSE 28)
    ELSE IF m \in {4, 6, 9, 11} THEN 30 ELSE 31

DaysBeforeYear(y) ==
    (y - 1) * 365 + ((y - 1) \div 4) - ((y - 1) \div 100) + ((y - 1) \div 400)

\* Days of the year before the first day of month m.
DaysBeforeMonthTable == <<0, 31, 59, 90, 120, 151, 181, 212, 243, 273, 304, 334>>
DaysBeforeMonth(y, m) ==
    DaysBeforeMonthTable[m] + (IF m > 2 /\ IsLeap(y) THEN 1 ELSE 0)

\* date.toordinal(): days since 0001-01-01, that day being 1.
ToOrdinal(d) == DaysBeforeYear(d[1]) + DaysBeforeMonth(d[1], d[2]) + d[3]

\* date.fromordinal(): the 400/100/4/1-year cycle decomposition.
FromOrdinal(n) ==
    LET n0   == n - 1
        n400 == n0 \div 146097
        r400 == n0 % 146097
        n100 == r400 \div 36524
        r100 == r400 % 36524
        n4   == r100 \div 1461
        r4   == r100 % 1461
        n1   == r4 \div 365
        r1   == r4 % 365
        year == n400 * 400 + 1 + n100 * 100 + n4 * 4 + n1
        m0   == (r1 + 50) \div 32
        p0   == DaysBeforeMonth(year, m0)
        month == IF p0 > r1 THEN m0 - 1 ELSE m0
        prec == DaysBeforeMonth(year, month)
    IN  IF n1 = 4 \/ n100 = 4 THEN <<year - 1, 12, 31>>
        ELSE <<year, month, r1 - prec + 1>>

\* current_date += timedelta(days=1)
AddDaysThirty(d, n) ==
    IF d[3] + n <= 30 THEN <<d[1], d[2], d[3] + n>>
    ELSE IF d[2] = 12 THEN <<d[1] + 1, 1, d[3] + n - 30>>
    ELSE <<d[1], d[2] + 1, d[3] + n - 30>>
AddDays(d, n) == FromOrdinal(ToOrdinal(d) + n)

\* date.weekday(): 0 = Monday .. 6 = Sunday.
WeekdaySundayFirst(d) == ToOrdinal(d) % 7
Weekday(d) == (ToOrdinal(d) + 6) % 7

\* date(year, month, day) raises ValueError outside the calendar.
ValidDate(d) ==
    /\ d[1] \in 1..9999
    /\ d[2] \in 1..12
    /\ d[3] \in 1..DaysInMonth(d[1], d[2])

\* Comparison of two date objects (year, month, day in that order).
DateLT(a, b) ==
    \/ a[1] < b[1]
    \/ a[1] = b[1] /\ a[2] < b[2]
    \/ a[1] = b[1] /\ a[2] = b[2] /\ a[3] < b[3]
DateLE(a, b) == a = b \/ DateLT(a, b)

(***************************************************************************)
(* Timestamps: TEXT values of the start_time column, datetime objects, and *)
(* the conversions between them.                                           *)
(***************************************************************************)
Digits2(n) == <<n \div 10, n % 10>>
Digits4(n) == <<n \div 1000, (n \div 100) % 10, (n \div 10) % 10, n % 10>>
Num2(s, i) == s[i] * 10 + s[i + 1]
Num4(s, i) == s[i] * 1000 + s[i + 1] * 100 + s[i + 2] * 10 + s[i + 3]

NullText == [kind |-> "null", s |-> <<>>]
BadText  == [kind |-> "bad", s |-> <<>>]

\* datetime.combine(date, time)
Combine(d, t) == [date |-> d, time |-> t]

\* datetime.isoformat(): zero-padded YYYY-MM-DDTHH:MM:SS.
IsoFormat(dt) ==
    [kind |-> "iso",
     s |-> Digits4(dt.date[1]) \o Digits2(dt.date[2]) \o Digits2(dt.date[3])
           \o Digits2(dt.time[1]) \o Digits2(dt.time[2]) \o Digits2(dt.time[3])]

\* datetime.fromisoformat(text): raises on None and on malformed text.
FieldsOf(x) ==
    Combine(<<Num4(x.s, 1), Num2(x.s, 5), Num2(x.s, 7)>>,
            <<Num2(x.s, 9), Num2(x.s, 11), Num2(x.s, 13)>>)
CanParse(x) ==
    /\ x.kind = "iso"
    /\ ValidDate(FieldsOf(x).date)
    /\ FieldsOf(x).time[1] \in 0..23
    /\ FieldsOf(x).time[2] \in 0..59
    /\ FieldsOf(x).time[3] \in 0..59
FromIsoFormat(x) == FieldsOf(x)

\* SQLite DATE(start_time): NULL for NULL and for text it cannot read,
\* otherwise the text YYYY-MM-DD (its eight digits).
SqlDateIsNull(x) == x.kind # "iso"
SqlDate(x) == SubSeq(x.s, 1, 8)

\* str(date): the text YYYY-MM-DD.
DateStr(d) == Digits4(d[1]) \o Digits2(d[2]) \o Digits2(d[3])

\* Comparison of two texts of equal width, digit by digit.
RECURSIVE DigitsLE(_, _, _)
DigitsLE(a, b, i) ==
    IF i > Len(a) THEN TRUE
    ELSE IF a[i] # b[i] THEN a[i] < b[i]
    ELSE DigitsLE(a, b, i + 1)

\* Python str comparison of two sort keys: '' is least, digits sort before
\* the letters of 'not-a-date'.
StrLE(a, b) ==
    CASE a.kind = "null" -> TRUE
      [] b.kind = "null" -> FALSE
      [] a.kind = "bad"  -> b.kind = "bad"
      [] b.kind = "bad"  -> TRUE
      [] OTHER           -> DigitsLE(a.s, b.s, 1)

(***************************************************************************)
(* The tasks table.  A row is a record of the table's columns; the table   *)
(* is the sequence of its rows in rowid order.  repeat_days is the TEXT    *)
(* column [null, days]: days lists the comma-separated fields of the text. *)
(***************************************************************************)
NullDays == [null |-> TRUE, days |-> <<>>]
DaysText(seq) == [null |-> FALSE, days |-> seq]

\* repeat_days_str.split(',')
Split(rd) == rd.days

\* sorted(selected_repeat_days), then ','.join(map(str, ...))
RECURSIVE SortedSeq(_)
SortedSeq(S) ==
    IF S = {} THEN <<>>
    ELSE LET m == CHOOSE x \in S : \A y \in S : x <= y
         IN  <<m>> \o SortedSeq(S \ {m})
JoinDays(S) == DaysText(SortedSeq(S))

\* The eight columns the schedule queries select.
Columns(r) ==
    [id |-> r.id, title |-> r.title, start_time |-> r.start_time,
     source |-> r.source, completed |-> r.completed, event_id |-> r.event_id,
     is_recurring |-> r.is_recurring, repeat_days |-> r.repeat_days]

\* events.sort(key=lambda x: x[2] if x[2] else ""): a stable sort.
SortKey(e) == e.start_time
RECURSIVE InsertAt(_, _, _)
InsertAt(s, e, j) ==
    IF j = 0 \/ StrLE(SortKey(s[j]), SortKey(e)) THEN j
    ELSE InsertAt(s, e, j - 1)
InsertByKey(s, e) ==
    LET j == InsertAt(s, e, Len(s))
    IN  SubSeq(s, 1, j) \o <<e>> \o SubSeq(s, j + 1, Len(s))
RECURSIVE SortFrom(_, _, _)
SortFrom(acc, s, i) ==
    IF i > Len(s) THEN acc ELSE SortFrom(InsertByKey(acc, s[i]), s, i + 1)
SortUnsorted(s) == s
SortByStartTime(s) == SortFrom(<<>>, s, 1)

(***************************************************************************)
(* DatabaseManager: the schedule queries.                                  *)
(***************************************************************************)
\* WHERE start_time IS NOT NULL AND DATE(start_time) >= lo AND DATE(start_time) <= hi
\*   AND completed = 0 AND (is_recurring = 0 OR is_recurring IS NULL)
IsOneShotInExclusive(r, lo, hi) ==
    /\ r.start_time.kind # "null"
    /\ ~SqlDateIsNull(r.start_time)
    /\ DigitsLE(lo, SqlDate(r.start_time), 1)
    /\ DigitsLE(SqlDate(r.start_time), hi, 1)
    /\ SqlDate(r.start_time) # hi
    /\ r.completed = 0
    /\ r.is_recurring = 0
IsOneShotInAnyRecurrence(r, lo, hi) ==
    /\ r.start_time.kind # "null"
    /\ ~SqlDateIsNull(r.start_time)
    /\ DigitsLE(lo, SqlDate(r.start_time), 1)
    /\ DigitsLE(SqlDate(r.start_time), hi, 1)
    /\ r.completed = 0
IsOneShotIn(r, lo, hi) ==
    /\ r.start_time.kind # "null"
    /\ ~SqlDateIsNull(r.start_time)
    /\ DigitsLE(lo, SqlDate(r.start_time), 1)
    /\ DigitsLE(SqlDate(r.start_time), hi, 1)
    /\ r.completed = 0
    /\ r.is_recurring = 0

\* The same, with DATE(start_time) < hi.
IsOneShotBefore(r, lo, hi) ==
    /\ r.start_time.kind # "null"
    /\ ~SqlDateIsNull(r.start_time)
    /\ DigitsLE(lo, SqlDate(r.start_time), 1)
    /\ SqlDate(r.start_time) # hi
    /\ DigitsLE(SqlDate(r.start_time), hi, 1)
    /\ r.completed = 0
    /\ r.is_recurring = 0

\* The second SELECT without its test of completed.
IsRecurringRowAnyStatus(r) ==
    /\ r.start_time.kind # "null"
    /\ r.is_recurring = 1
    /\ ~r.repeat_days.null

\* WHERE start_time IS NOT NULL AND is_recurring = 1
\*   AND repeat_days IS NOT NULL AND completed = 0
IsRecurringRow(r) ==
    /\ r.start_time.kind # "null"
    /\ r.is_recurring = 1
    /\ ~r.repeat_days.null
    /\ r.completed = 0

\* The first SELECT of get_schedule_by_date_range, ORDER BY start_time ASC.
OneShotRows(store, lo, hi) ==
    LET Test(r) == IsOneShotIn(r, lo, hi)
        sel == SelectSeq(store, Test)
    IN  SortByStartTime([i \in 1..Len(sel) |-> Columns(sel[i])])

\* The first SELECT of get_schedule_by_month.
OneShotRowsBefore(store, lo, hi) ==
    LET Test(r) == IsOneShotBefore(r, lo, hi)
        sel == SelectSeq(store, Test)
    IN  SortByStartTime([i \in 1..Len(sel) |-> Columns(sel[i])])

\* The second SELECT: the recurring rows, in rowid order.
RecurringRows(store) ==
    LET sel == SelectSeq(store, IsRecurringRow)
    IN  [i \in 1..Len(sel) |-> Columns(sel[i])]

\* if repeat_days_str and str(weekday) in repeat_days_str.split(',')
RepeatsOn(e, weekday) ==
    /\ Split(e.repeat_days) # <<>>
    /\ \E i \in 1..Len(Split(e.repeat_days)) : Split(e.repeat_days)[i] = weekday

\* The instance appended for one recurring row and one date.
Instance(e, d) ==
    [e EXCEPT !.start_time =
        IsoFormat(Combine(d, FromIsoFormat(e.start_time).time))]

\* The inner for loop: the instances of one date, rows that fail to
\* parse being passed over by the except clause.
DayInstancesOneTry(d, recs) ==
    LET Test(e) == RepeatsOn(e, Weekday(d))
        sel == SelectSeq(recs, Test)
        bad == {i \in 1..Len(sel) : ~CanParse(sel[i].start_time)}
        n == IF bad = {} THEN Len(sel)
             ELSE (CHOOSE i \in bad : \A j \in bad : i <= j) - 1
    IN  [i \in 1..n |-> Instance(sel[i], d)]
DayInstances(d, recs) ==
    LET Test(e) == RepeatsOn(e, Weekday(d)) /\ CanParse(e.start_time)
        sel == SelectSeq(recs, Test)
    IN  [i \in 1..Len(sel) |-> Instance(sel[i], d)]

\* while current_date <= end_date: ...; current_date += timedelta(days=1)
RECURSIVE ExpandRange(_, _, _)
ExpandRange(cur, end, recs) ==
    IF ~DateLE(cur, end) THEN <<>>
    ELSE DayInstances(cur, recs) \o ExpandRange(AddDays(cur, 1), end, recs)

\* The month loop with <= in place of <.
RECURSIVE ExpandThrough(_, _, _)
ExpandThrough(cur, end, recs) ==
    IF ~DateLE(cur, end) THEN <<>>
    ELSE DayInstances(cur, recs) \o ExpandThrough(AddDays(cur, 1), end, recs)

\* while current_date < last_day: ...
RECURSIVE ExpandBefore(_, _, _)
ExpandBefore(cur, end, recs) ==
    IF ~DateLT(cur, end) THEN <<>>
    ELSE DayInstances(cur, recs) \o ExpandBefore(AddDays(cur, 1), end, recs)

get_schedule_by_date_range(store, start_date, end_date) ==
    SortByStartTime(
        OneShotRows(store, DateStr(start_date), DateStr(end_date))
        \o ExpandRange(start_date, end_date, RecurringRows(store)))

\* get_schedule_by_month: date(year, month, 1) raises ValueError for a
\* month outside 1..12.
MonthRaises(year, month) == ~ValidDate(<<year, month, 1>>)
FirstDay(year, month) == <<year, month, 1>>
\* last_day with the year of December kept.
LastDaySameYear(year, month) ==
    IF month = 12 THEN <<year, 1, 1>> ELSE <<year, month + 1, 1>>
LastDay(year, month) ==
    IF month = 12 THEN <<year + 1, 1, 1>> ELSE <<year, month + 1, 1>>
get_schedule_by_month(store, year, month) ==
    SortByStartTime(
        OneShotRowsBefore(store, DateStr(FirstDay(year, month)),
                          DateStr(LastDay(year, month)))
        \o ExpandBefore(FirstDay(year, month), LastDay(year, month),
                        RecurringRows(store)))

\* events[:limit]
Prefix(s, limit) == SubSeq(s, 1, IF limit < Len(s) THEN limit ELSE Len(s))

\* The SELECT of the today queries without the test of completed.
IsOneShotOnAnyStatus(r, day) ==
    /\ r.start_time.kind # "null"
    /\ ~SqlDateIsNull(r.start_time)
    /\ SqlDate(r.start_time) = day
    /\ r.is_recurring = 0

\* WHERE start_time IS NOT NULL AND DATE(start_time) = today
\*   AND completed = 0 AND (is_recurring = 0 OR is_recurring IS NULL)
IsOneShotOn(r, day) ==
    /\ r.start_time.kind # "null"
    /\ ~SqlDateIsNull(r.start_time)
    /\ SqlDate(r.start_time) = day
    /\ r.completed = 0
    /\ r.is_recurring = 0

\* The today queries test the weekday once and have no loop over dates.
TodayInstances(today, recs) == DayInstances(today, recs)

\* get_today_schedule_full without the events.sort before the slice.
get_today_schedule_fullUnsorted(store, today, limit) ==
    LET Test(r) == IsOneShotOn(r, DateStr(today))
        sel == SelectSeq(store, Test)
        events == SortByStartTime([i \in 1..Len(sel) |-> Columns(sel[i])])
    IN  Prefix(events \o TodayInstances(today, RecurringRows(store)), limit)
get_today_schedule_full(store, today, limit) ==
    LET Test(r) == IsOneShotOn(r, DateStr(today))
        sel == SelectSeq(store, Test)
        events == SortByStartTime([i \in 1..Len(sel) |-> Columns(sel[i])])
    IN  Prefix(SortByStartTime(
                   events \o TodayInstances(today, RecurringRows(store))),
               limit)

\* get_today_schedule selects and returns (title, start_time) only.
TitleAndTime(e) == [title |-> e.title, start_time |-> e.start_time]
get_today_schedule(store, today, limit) ==
    LET Test(r) == IsOneShotOn(r, DateStr(today))
        sel == SelectSeq(store, Test)
        events == SortByStartTime([i \in 1..Len(sel) |-> TitleAndTime(sel[i])])
        inst == TodayInstances(today, RecurringRows(store))
    IN  Prefix(SortByStartTime(
                   events \o [i \in 1..Len(inst) |-> TitleAndTime(inst[i])]),
               limit)

(***************************************************************************)
(* Bounds and input sets.                                                  *)
(***************************************************************************)
MaxRows == 2

Titles == <<"Standup", "Lunch", "Review", "Gym">>
TitleOf(i) == Titles[((i - 1) % Len(Titles)) + 1]

Sunday    == <<2023, 12, 31>>
Wednesday == <<2024, 1, 3>>
AnchorDates == {Sunday, Wednesday}
RangeInputs ==
    {<<Sunday, Sunday>>, <<Wednesday, Wednesday>>, <<Sunday, Wednesday>>,
     <<<<2023, 12, 28>>, <<2024, 1, 10>>>>, <<<<2024, 2, 25>>, <<2024, 3, 3>>>>,
     <<<<2024, 1, 4>>, <<2024, 1, 10>>>>, <<Wednesday, Sunday>>,
     <<<<2024, 1, 10>>, <<2023, 12, 28>>>>}
MonthInputs == {<<2023, 12>>, <<2024, 1>>, <<2024, 2>>, <<2024, 13>>, <<2024, 0>>}
TodayInputs == {Sunday, Wednesday, <<2024, 1, 10>>}
Limits == {1, 3}

At(d, t) == IsoFormat(Combine(d, t))
Nine      == <<9, 0, 0>>
HalfEight == <<8, 30, 0>>

\* Contents a row of an existing tasks.db can have: <<start_time,
\* completed, is_recurring, repeat_days>>.
RowShapes ==
    {<<At(Sunday, Nine), 0, 0, NullDays>>,
     <<At(Wednesday, Nine), 0, 0, NullDays>>,
     <<At(Wednesday, HalfEight), 0, 0, NullDays>>,
     <<NullText, 0, 0, NullDays>>,
     <<BadText, 0, 0, NullDays>>,
     <<At(Wednesday, Nine), 1, 0, NullDays>>,
     <<At(Wednesday, Nine), 0, 0, DaysText(<<2>>)>>,
     <<At(Wednesday, HalfEight), 0, 1, DaysText(<<0, 2>>)>>,
     <<At(Wednesday, Nine), 0, 1, DaysText(<<6>>)>>,
     <<At(Sunday, HalfEight), 0, 1, DaysText(<<2>>)>>,
     <<At(Sunday, Nine), 0, 1, DaysText(<<6>>)>>,
     <<BadText, 0, 1, DaysText(<<2>>)>>,
     <<At(Wednesday, HalfEight), 0, 1, NullDays>>,
     <<At(Wednesday, HalfEight), 0, 1, DaysText(<<>>)>>,
     <<At(Wednesday, HalfEight), 1, 1, DaysText(<<2>>)>>}

\* add_task: the row INSERT writes for a Task, the id being the rowid.
Row(id, title, start_time, completed, source, is_recurring, repeat_days) ==
    [id |-> id, title |-> title, start_time |-> start_time,
     completed |-> completed, source |-> source, event_id |-> "NULL",
     is_recurring |-> is_recurring, repeat_days |-> repeat_days,
     priority |-> "medium"]

ShapedRow(i, sh) == Row(i, TitleOf(i), sh[1], sh[2], "local", sh[3], sh[4])

ExpandStores ==
    UNION {{[i \in 1..n |-> ShapedRow(i, f[i])] : f \in [1..n -> RowShapes]}
           : n \in 0..MaxRows}

(***************************************************************************)
(* The state: the tasks table, the next rowid of AUTOINCREMENT, what the    *)
(* last call was given and returned, the PomodoroTimer of the application  *)
(* and the add_event_voice call a background thread is in.                 *)
(***************************************************************************)
\* self._session_start_seconds = None
None == -1

\* PomodoroTimer(self, minutes=0) followed by self.timer.reset() in build:
\* the fields of the timer, scheduled_event telling whether _tick is
\* scheduled on the Clock, and sessions counting the calls of
\* _show_done_popup since the last reset, set_minutes or set_hm.
IdleTimer ==
    [default_seconds |-> 0, remaining_seconds |-> 0, is_running |-> FALSE,
     notified |-> FALSE, session_start_seconds |-> None,
     scheduled_event |-> FALSE, sessions |-> 0]

\* No add_event_voice call is under way on a background thread.
NoJob ==
    [pc |-> "idle", callback |-> "none", a |-> <<>>, start_time |-> NullText,
     conflict_message |-> <<>>, done |-> FALSE, reply |-> "none",
     before |-> <<>>]

NoCall ==
    [op |-> "none", a |-> <<>>, raised |-> FALSE, out |-> <<>>,
     before |-> <<>>, verdict |-> "none", msg |-> <<>>]

Called(op, a, raised, out) ==
    [op |-> op, a |-> a, raised |-> raised, out |-> out,
     before |-> tasks, verdict |-> "none", msg |-> <<>>]

\* The calls are made one at a time on the main thread: a call starts when
\* no result is pending, and Return hands the pending result to the caller.
Fresh == last.op = "none"

Return ==
    /\ ~Fresh
    /\ last' = NoCall
    /\ UNCHANGED <<tasks, nextId, timer, job>>

\* DatabaseManager.__init__ opens tasks.db and keeps the rows it holds.
InitExpand ==
    /\ tasks \in ExpandStores
    /\ nextId = Len(tasks) + 1
    /\ last = NoCall
    /\ timer = IdleTimer
    /\ job = NoJob

\* A range query that writes the first entry it returns back as a row.
RangeQueryPersisting ==
    \E r \in RangeInputs :
        LET out == get_schedule_by_date_range(tasks, r[1], r[2])
            keep == out # <<>> /\ Len(tasks) < MaxRows
        IN  /\ Fresh
            /\ last' = Called("range", r, FALSE, out)
            /\ tasks' = IF keep
                        THEN Append(tasks, Row(nextId, out[1].title, out[1].start_time,
                                               0, "local", 0, NullDays))
                        ELSE tasks
            /\ nextId' = IF keep THEN nextId + 1 ELSE nextId
            /\ UNCHANGED <<timer, job>>

RangeQuery ==
    \E r \in RangeInputs :
        /\ Fresh
        /\ last' = Called("range", r, FALSE,
                          get_schedule_by_date_range(tasks, r[1], r[2]))
        /\ UNCHANGED <<tasks, nextId, timer, job>>

MonthQuery ==
    \E ym \in MonthInputs :
        /\ Fresh
        /\ last' = IF MonthRaises(ym[1], ym[2])
                   THEN Called("month", ym, TRUE, <<>>)
                   ELSE Called("month", ym, FALSE,
                               get_schedule_by_month(tasks, ym[1], ym[2]))
        /\ UNCHANGED <<tasks, nextId, timer, job>>

TodayQuery ==
    \E today \in TodayInputs, limit \in Limits :
        /\ Fresh
        /\ last' = Called("today", <<today, limit>>, FALSE,
                          get_today_schedule(tasks, today, limit))
        /\ UNCHANGED <<tasks, nextId, timer, job>>

TodayFullQuery ==
    \E today \in TodayInputs, limit \in Limits :
        /\ Fresh
        /\ last' = Called("today_full", <<today, limit>>, FALSE,
                          get_today_schedule_full(tasks, today, limit))
        /\ UNCHANGED <<tasks, nextId, timer, job>>

NextExpand ==
    RangeQuery \/ MonthQuery \/ TodayQuery \/ TodayFullQuery \/ Return

SpecExpand == InitExpand /\ [][NextExpand]_vars

(***************************************************************************)
(* DatabaseManager: the writes.                                            *)
(***************************************************************************)
\* add_schedule_item raises ValueError for a Task without start_time,
\* and otherwise is add_task.
AddRaises(start_time) == start_time.kind = "null"
add_task(store, id, title, start_time, is_recurring, repeat_days) ==
    Append(store, Row(id, title, start_time, 0, "local", is_recurring, repeat_days))

\* update_task: title, start_time and is_recurring are always given by
\* the edit handler; repeat_days is written only when it is not None.
update_task(store, task_id, title, start_time, is_recurring, repeat_days) ==
    [i \in 1..Len(store) |->
        IF store[i].id # task_id THEN store[i]
        ELSE [store[i] EXCEPT
                !.title = title,
                !.start_time = start_time,
                !.is_recurring = is_recurring,
                !.repeat_days = IF repeat_days.null THEN @ ELSE repeat_days]]

(***************************************************************************)
(* EventManager: creating and editing an event from the popup.             *)
(***************************************************************************)
\* datetime.strptime(f"{date} {time}:00", "%Y-%m-%d %H:%M:%S")
PopupDateTime(form) == Combine(form.date, <<form.time[1], form.time[2], 0>>)

\* The validation before the try block: "title", "date", "time", "days"
\* name the error popup shown, "ok" lets the handler go on.
\* The validation without the test of the selected days.
ValidateWithoutDays(form) ==
    IF form.title = "" THEN "title"
    ELSE IF ~form.has_date THEN "date"
    ELSE IF ~form.has_time THEN "time"
    ELSE "ok"
Validate(form) ==
    IF form.title = "" THEN "title"
    ELSE IF ~form.has_date THEN "date"
    ELSE IF ~form.has_time THEN "time"
    ELSE IF form.is_recurring /\ form.days = {} THEN "days"
    ELSE "ok"

\* existing_dt.date() == event_date and existing_dt.hour == dt.hour
\*   and existing_dt.minute == dt.minute, under if event[2] and try.
SameHour(e, dt) ==
    /\ e.start_time.kind # "null"
    /\ CanParse(e.start_time)
    /\ FromIsoFormat(e.start_time).date = dt.date
    /\ FromIsoFormat(e.start_time).time[1] = dt.time[1]
SameMinute(e, dt) ==
    /\ e.start_time.kind # "null"
    /\ CanParse(e.start_time)
    /\ FromIsoFormat(e.start_time).date = dt.date
    /\ FromIsoFormat(e.start_time).time[1] = dt.time[1]
    /\ FromIsoFormat(e.start_time).time[2] = dt.time[2]

\* The loop over existing_events of create_event_from_popup.
CreateConflict(existing, dt) ==
    \E k \in 1..Len(existing) : SameMinute(existing[k], dt)

\* The loop of update_event_from_popup, which skips the edited event.
UpdateConflictNoSkip(existing, dt, event_id) ==
    \E k \in 1..Len(existing) : SameMinute(existing[k], dt)
UpdateConflict(existing, dt, event_id) ==
    \E k \in 1..Len(existing) :
        existing[k].id # event_id /\ SameMinute(existing[k], dt)

\* repeat_days_str of the two handlers.
RepeatDaysStr(form) ==
    IF form.is_recurring /\ form.days # {} THEN JoinDays(form.days) ELSE NullDays

Handled(op, a, out, verdict, msg) ==
    [op |-> op, a |-> a, raised |-> FALSE, out |-> out,
     before |-> tasks, verdict |-> verdict, msg |-> msg]

create_event_from_popup(form) ==
    LET dt == PopupDateTime(form)
        existing == get_schedule_by_date_range(tasks, dt.date, dt.date)
    IN  IF Validate(form) # "ok"
        THEN /\ last' = Handled("create", form, <<>>, "invalid", <<Validate(form)>>)
             /\ UNCHANGED <<tasks, nextId, timer, job>>
        ELSE IF CreateConflict(existing, dt)
        THEN /\ last' = Handled("create", form, existing, "conflict", <<>>)
             /\ UNCHANGED <<tasks, nextId, timer, job>>
        ELSE /\ Len(tasks) < MaxRows
             /\ tasks' = add_task(tasks, nextId, form.title, IsoFormat(dt),
                                  IF form.is_recurring THEN 1 ELSE 0,
                                  RepeatDaysStr(form))
             /\ nextId' = nextId + 1
             /\ UNCHANGED <<timer, job>>
             /\ last' = Handled("create", form, existing, "added", <<>>)

update_event_from_popup(event_id, form) ==
    LET dt == PopupDateTime(form)
        existing == get_schedule_by_date_range(tasks, dt.date, dt.date)
    IN  IF Validate(form) # "ok"
        THEN /\ last' = Handled("update", <<event_id, form>>, <<>>, "invalid",
                                <<Validate(form)>>)
             /\ UNCHANGED <<tasks, nextId, timer, job>>
        ELSE IF UpdateConflict(existing, dt, event_id)
        THEN /\ last' = Handled("update", <<event_id, form>>, existing,
                                "conflict", <<>>)
             /\ UNCHANGED <<tasks, nextId, timer, job>>
        ELSE /\ tasks' = update_task(tasks, event_id, form.title, IsoFormat(dt),
                                     IF form.is_recurring THEN 1 ELSE 0,
                                     RepeatDaysStr(form))
             /\ last' = Handled("update", <<event_id, form>>, existing,
                                "updated", <<>>)
             /\ UNCHANGED <<nextId, timer, job>>

(***************************************************************************)
(* add_event_voice, called on the main thread.  time_str is a record:      *)
(* kind "empty" is '', "ampm" is a 12-hour time such as '2pm' or           *)
(* '2:30pm', "h24" is a 24-hour time such as '14:00', "junk" is text no    *)
(* format matches.                                                         *)
(***************************************************************************)
EmptyStr == [kind |-> "empty", h |-> 0, m |-> 0, pm |-> FALSE]
JunkStr  == [kind |-> "junk", h |-> 0, m |-> 0, pm |-> FALSE]
AmPm(h, m, pm) == [kind |-> "ampm", h |-> h, m |-> m, pm |-> pm]
H24(h, m) == [kind |-> "h24", h |-> h, m |-> m, pm |-> FALSE]

\* strptime with %I%p, %I:%M%p, %H:%M; noon when no format matches.
ParseTimeStr(ts) ==
    CASE ts.kind = "ampm" -> <<(ts.h % 12) + (IF ts.pm THEN 12 ELSE 0), ts.m, 0>>
      [] ts.kind = "h24"  -> <<ts.h, ts.m, 0>>
      [] OTHER            -> <<12, 0, 0>>

\* start_time: None without time_str, else the ISO text of date and time.
VoiceStartTime(target_date, ts) ==
    IF ts.kind = "empty" THEN NullText
    ELSE IsoFormat(Combine(target_date, ParseTimeStr(ts)))

\* dt_obj + timedelta(minutes=offset_minutes)
AddMinutes(dt, off) ==
    LET total == dt.time[1] * 60 + dt.time[2] + off
    IN  Combine(AddDays(dt.date, total \div 1440),
                <<(total % 1440) \div 60, total % 60, dt.time[3]>>)

\* event_times: the (hour, minute) keys of the existing events that parse
\* and fall on event_date; each key keeps the title of its first event.
TimeKey(dt) == <<dt.time[1], dt.time[2]>>
OnDate(e, event_date) ==
    /\ e.start_time.kind # "null"
    /\ CanParse(e.start_time)
    /\ FromIsoFormat(e.start_time).date = event_date
EventTimeKeys(existing, event_date) ==
    {TimeKey(FromIsoFormat(existing[k].start_time)) :
        k \in {j \in 1..Len(existing) : OnDate(existing[j], event_date)}}
FirstTitle(existing, event_date, key) ==
    LET ks == {k \in 1..Len(existing) :
                  /\ OnDate(existing[k], event_date)
                  /\ TimeKey(FromIsoFormat(existing[k].start_time)) = key}
    IN  existing[CHOOSE k \in ks : \A j \in ks : k <= j].title

\* The 12-hour text of a suggestion: hour, ':MM' unless the minute is 0,
\* then am or pm.
\* The 12-hour text without the step that turns hour 0 into 12.
Format12ZeroHour(t) ==
    [h |-> t.time[1] % 12,
     mm |-> IF t.time[2] > 0 THEN Digits2(t.time[2]) ELSE <<>>,
     ampm |-> IF t.time[1] < 12 THEN "am" ELSE "pm"]
Format12(t) ==
    [h |-> IF t.time[1] % 12 = 0 THEN 12 ELSE t.time[1] % 12,
     mm |-> IF t.time[2] > 0 THEN Digits2(t.time[2]) ELSE <<>>,
     ampm |-> IF t.time[1] < 12 THEN "am" ELSE "pm"]

\* for offset_minutes in [-60, -30, 30, 60]: ... break at 3 suggestions.
Offsets == <<-60, -30, 30, 60>>
MaxSuggestions == 3
RECURSIVE SuggestNoLimit(_, _, _, _)
SuggestNoLimit(acc, i, dt_obj, keys) ==
    IF i > Len(Offsets) THEN acc
    ELSE LET alt == AddMinutes(dt_obj, Offsets[i])
         IN  IF TimeKey(alt) \notin keys
             THEN SuggestNoLimit(Append(acc, Format12(alt)), i + 1, dt_obj, keys)
             ELSE SuggestNoLimit(acc, i + 1, dt_obj, keys)
RECURSIVE Suggest(_, _, _, _)
Suggest(acc, i, dt_obj, keys) ==
    IF i > Len(Offsets) \/ Len(acc) >= MaxSuggestions THEN acc
    ELSE LET alt == AddMinutes(dt_obj, Offsets[i])
         IN  IF TimeKey(alt) \notin keys
             THEN Suggest(Append(acc, Format12(alt)), i + 1, dt_obj, keys)
             ELSE Suggest(acc, i + 1, dt_obj, keys)

\* if suggestions: '... How about <suggestions> instead?'
\* else: '... Please choose a different time.'
ClosingAlwaysHowAbout(suggestions) == "How about"
Closing(suggestions) ==
    IF suggestions # <<>> THEN "How about" ELSE "Please choose a different time."

\* The message: the conflicting title, the closing sentence and the
\* suggestions it lists.
ConflictMessage(existing, dt_obj) ==
    LET suggestions == Suggest(<<>>, 1, dt_obj,
                               EventTimeKeys(existing, dt_obj.date))
    IN  [title |-> FirstTitle(existing, dt_obj.date, TimeKey(dt_obj)),
         closing |-> Closing(suggestions),
         suggestions |-> suggestions]

add_event_voice(title, ts, target_date) ==
    LET start_time == VoiceStartTime(target_date, ts)
        dt_obj == FromIsoFormat(start_time)
        existing == get_schedule_by_date_range(tasks, dt_obj.date, dt_obj.date)
        a == <<title, ts, target_date>>
    IN  IF title = ""
        THEN /\ last' = Handled("voice", a, <<>>, "invalid", <<"title">>)
             /\ UNCHANGED <<tasks, nextId, timer, job>>
        ELSE IF AddRaises(start_time)
        THEN /\ last' = Handled("voice", a, <<>>, "error", <<>>)
             /\ UNCHANGED <<tasks, nextId, timer, job>>
        ELSE IF TimeKey(dt_obj) \in EventTimeKeys(existing, dt_obj.date)
        THEN /\ last' = Handled("voice", a, existing, "conflict",
                                ConflictMessage(existing, dt_obj))
             /\ UNCHANGED <<tasks, nextId, timer, job>>
        ELSE /\ Len(tasks) < MaxRows
             /\ tasks' = add_task(tasks, nextId, title, start_time, 0, NullDays)
             /\ nextId' = nextId + 1
             /\ UNCHANGED <<timer, job>>
             /\ last' = Handled("voice", a, existing, "added", <<>>)

(***************************************************************************)
(* Spec: the event handlers on a table that starts empty.                  *)
(***************************************************************************)
Thursday == <<2024, 1, 4>>
PopupDates == {Wednesday, Thursday}
PopupTimes == {<<14, 0>>, <<14, 1>>}
DayChoices == {{}, {2}}
Forms ==
    [title : {"Standup"}, has_date : {TRUE}, date : PopupDates,
     has_time : {TRUE}, time : PopupTimes, is_recurring : BOOLEAN,
     days : DayChoices]
    \cup
    [title : {""}, has_date : {TRUE}, date : {Wednesday},
     has_time : {TRUE}, time : {<<14, 0>>}, is_recurring : {FALSE},
     days : {{}}]
    \cup
    [title : {"Standup"}, has_date : BOOLEAN, date : {Wednesday},
     has_time : BOOLEAN, time : {<<14, 0>>}, is_recurring : {FALSE},
     days : {{}}]
VoiceTitles == {"", "Standup"}
VoiceTimes == {EmptyStr, AmPm(2, 0, TRUE), H24(14, 1)}

Init ==
    /\ tasks = <<>>
    /\ nextId = 1
    /\ last = NoCall
    /\ timer = IdleTimer
    /\ job = NoJob

CreateEvent ==
    /\ Fresh
    /\ \E form \in Forms : create_event_from_popup(form)

UpdateEvent ==
    /\ Fresh
    /\ \E k \in 1..Len(tasks), form \in Forms :
        update_event_from_popup(tasks[k].id, form)

AddEventVoice ==
    /\ Fresh
    /\ \E title \in VoiceTitles, ts \in VoiceTimes, d \in PopupDates :
        add_event_voice(title, ts, d)

Next == CreateEvent \/ UpdateEvent \/ AddEventVoice \/ Return

Spec == Init /\ [][Next]_vars

(***************************************************************************)
(* SpecVoice: add_event_voice on a table that already holds events on      *)
(* Wednesday 3 January 2024: every slot of a half-hour grid around 14:00   *)
(* is free, taken by a one-shot event, or taken by a weekly event          *)
(* anchored on the Thursday and repeating on Wednesdays.                   *)
(***************************************************************************)
SlotTimes == <<<<13, 0, 0>>, <<13, 30, 0>>, <<14, 0, 0>>, <<14, 30, 0>>, <<15, 0, 0>>>>
SlotStates == {"free", "once", "weekly"}

RECURSIVE SeedRows(_, _, _)
SeedRows(f, i, store) ==
    IF i > Len(SlotTimes) THEN store
    ELSE IF f[i] = "free" THEN SeedRows(f, i + 1, store)
    ELSE LET id == Len(store) + 1
             row == IF f[i] = "once"
                    THEN Row(id, TitleOf(id), At(Wednesday, SlotTimes[i]),
                             0, "local", 0, NullDays)
                    ELSE Row(id, TitleOf(id), At(Thursday, SlotTimes[i]),
                             0, "local", 1, DaysText(<<2>>))
         IN  SeedRows(f, i + 1, Append(store, row))
VoiceSeeds == {SeedRows(f, 1, <<>>) : f \in [1..Len(SlotTimes) -> SlotStates]}
SeededVoiceTimes ==
    {EmptyStr, JunkStr, AmPm(2, 0, TRUE), AmPm(1, 30, TRUE), H24(14, 1), H24(15, 0)}

InitVoice ==
    /\ tasks \in VoiceSeeds
    /\ nextId = Len(tasks) + 1
    /\ last = NoCall
    /\ timer = IdleTimer
    /\ job = NoJob

AddEventVoiceSeeded ==
    /\ Fresh
    /\ \E title \in VoiceTitles, ts \in SeededVoiceTimes, d \in PopupDates :
        add_event_voice(title, ts, d)

NextVoice == AddEventVoiceSeeded \/ Return

SpecVoice == InitVoice /\ [][NextVoice]_vars

(***************************************************************************)
(* SpecNight: add_event_voice on a table holding events on both sides of   *)
(* the two midnights of Wednesday 3 January 2024.                          *)
(***************************************************************************)
Tuesday == <<2024, 1, 2>>
NightSlots ==
    <<<<Tuesday, <<23, 30, 0>>>>, <<Wednesday, <<0, 0, 0>>>>,
      <<Wednesday, <<0, 30, 0>>>>, <<Wednesday, <<23, 0, 0>>>>,
      <<Wednesday, <<23, 30, 0>>>>, <<Thursday, <<0, 30, 0>>>>>>

RECURSIVE NightRows(_, _, _)
NightRows(f, i, store) ==
    IF i > Len(NightSlots) THEN store
    ELSE IF ~f[i] THEN NightRows(f, i + 1, store)
    ELSE NightRows(f, i + 1,
             Append(store, Row(Len(store) + 1, TitleOf(Len(store) + 1),
                               At(NightSlots[i][1], NightSlots[i][2]),
                               0, "local", 0, NullDays)))
NightSeeds == {NightRows(f, 1, <<>>) : f \in [1..Len(NightSlots) -> BOOLEAN]}
NightTimes == {AmPm(12, 30, FALSE), H24(23, 30), H24(0, 0), AmPm(11, 0, TRUE)}

InitNight ==
    /\ tasks \in NightSeeds
    /\ nextId = Len(tasks) + 1
    /\ last = NoCall
    /\ timer = IdleTimer
    /\ job = NoJob

AddEventVoiceNight ==
    /\ Fresh
    /\ \E title \in VoiceTitles, ts \in NightTimes :
        add_event_voice(title, ts, Wednesday)

NextNight == AddEventVoiceNight \/ Return

SpecNight == InitNight /\ [][NextNight]_vars

(***************************************************************************)
(* SpecStore: the views between completions, deletions and insertions on   *)
(* a table of live items.                                                  *)
(***************************************************************************)
\* cursor.rowcount > 0 of an UPDATE or DELETE ... WHERE id = ?
RowCount(store, task_id) ==
    Cardinality({i \in 1..Len(store) : store[i].id = task_id})

\* UPDATE tasks SET completed = NOT completed WHERE id = ?
toggle_task_completion(store, task_id) ==
    [i \in 1..Len(store) |->
        IF store[i].id = task_id
        THEN [store[i] EXCEPT !.completed = IF @ = 0 THEN 1 ELSE 0]
        ELSE store[i]]

\* DELETE FROM tasks WHERE id = ?
delete_taskOneShotOnly(store, task_id) ==
    LET Keep(r) == r.id # task_id \/ r.is_recurring = 1 IN SelectSeq(store, Keep)
delete_task(store, task_id) ==
    LET Keep(r) == r.id # task_id IN SelectSeq(store, Keep)

\* Rowids are handed out by AUTOINCREMENT and never given twice; the
\* insertions stop at rowid MaxId.
MaxId == MaxRows
StoreShapes ==
    {<<At(Wednesday, Nine), 0, 0, NullDays>>,
     <<At(Sunday, Nine), 0, 0, NullDays>>,
     <<At(Wednesday, HalfEight), 0, 1, DaysText(<<0, 2>>)>>,
     <<At(Sunday, Nine), 0, 1, DaysText(<<6>>)>>}
StoreSeeds ==
    UNION {{[i \in 1..n |-> ShapedRow(i, f[i])] : f \in [1..n -> StoreShapes]}
           : n \in 0..MaxRows}
TaskIds == 1..MaxId

InitStore ==
    /\ tasks \in StoreSeeds
    /\ nextId = Len(tasks) + 1
    /\ last = NoCall
    /\ timer = IdleTimer
    /\ job = NoJob

ToggleTask ==
    \E task_id \in TaskIds :
        /\ Fresh
        /\ tasks' = toggle_task_completion(tasks, task_id)
        /\ last' = Called("toggle", task_id, FALSE, <<RowCount(tasks, task_id) > 0>>)
        /\ UNCHANGED <<nextId, timer, job>>

DeleteTask ==
    \E task_id \in TaskIds :
        /\ Fresh
        /\ tasks' = delete_task(tasks, task_id)
        /\ last' = Called("delete", task_id, FALSE, <<RowCount(tasks, task_id) > 0>>)
        /\ UNCHANGED <<nextId, timer, job>>

AddItem ==
    \E sh \in StoreShapes :
        /\ Fresh
        /\ Len(tasks) < MaxRows
        /\ nextId <= MaxId
        /\ tasks' = add_task(tasks, nextId, TitleOf(nextId), sh[1], sh[3], sh[4])
        /\ nextId' = nextId + 1
        /\ UNCHANGED <<timer, job>>
        /\ last' = Called("add", nextId, FALSE, <<>>)

(***************************************************************************)
(* CalendarManager.render_calendar_grid: the two indicators of every day   *)
(* button of the selected month.                                           *)
(***************************************************************************)
\* The loop over events: if event[2], fromisoformat under try, and
\* bool(event[6]) choosing the dictionary the date is entered in.
Dated(e) == e.start_time.kind # "null" /\ CanParse(e.start_time)
events_by_dateAnyKind(events) ==
    {FromIsoFormat(events[k].start_time).date :
        k \in {j \in 1..Len(events) : Dated(events[j])}}
events_by_date(events) ==
    {FromIsoFormat(events[k].start_time).date :
        k \in {j \in 1..Len(events) :
                  Dated(events[j]) /\ events[j].is_recurring = 0}}
recurring_events_by_date(events) ==
    {FromIsoFormat(events[k].start_time).date :
        k \in {j \in 1..Len(events) :
                  Dated(events[j]) /\ events[j].is_recurring # 0}}

\* The days of calendar.monthcalendar that are not 0, each with
\* has_events and has_recurring_events of its button.
render_calendar_grid(store, year, month) ==
    LET events == get_schedule_by_month(store, year, month)
    IN  [day \in 1..DaysInMonth(year, month) |->
            [has_events |-> <<year, month, day>> \in events_by_date(events),
             has_recurring_events |->
                 <<year, month, day>> \in recurring_events_by_date(events)]]

(***************************************************************************)
(* The rows of the two month grids: the header labels and the weeks of     *)
(* calendar.monthcalendar below them.                                      *)
(***************************************************************************)
\* calendar.monthcalendar(year, month) with the default first weekday
\* (the repository never calls setfirstweekday): weeks of seven days,
\* column 1 being Monday, 0 for the days outside the month.
monthcalendar(year, month) ==
    LET day1   == Weekday(<<year, month, 1>>)
        ndays  == DaysInMonth(year, month)
        nweeks == (day1 + ndays + 6) \div 7
        Cell(w, c) ==
            LET n == (w - 1) * 7 + c - day1
            IN  IF n \in 1..ndays THEN n ELSE 0
    IN  [w \in 1..nweeks |-> [c \in 1..7 |-> Cell(w, c)]]

\* render_calendar_grid: the weekday_row and one week_row per week of cal.
calendar_grid_rows(year, month) ==
    [weekdays |-> <<"Mo", "Tu", "We", "Th", "Fr", "Sa", "Su">>,
     weeks |-> monthcalendar(year, month)]

\* render_date_picker_calendar: the weekday_row and one week_row per week
\* of cal; a button per day, without text where the day is 0.
render_date_picker_calendar(year, month) ==
    [weekdays |-> <<"Su", "Mo", "Tu", "We", "Th", "Fr", "Sa">>,
     weeks |-> monthcalendar(year, month)]

\* The months the date picker is moved to with its two arrows.
PickerMonths == {<<2023, 12>>, <<2024, 1>>, <<2024, 2>>}
RenderPicker ==
    \E ym \in PickerMonths :
        /\ Fresh
        /\ last' = Called("picker", ym, FALSE,
                          render_date_picker_calendar(ym[1], ym[2]))
        /\ UNCHANGED <<tasks, nextId, timer, job>>

\* The months the calendar screen is moved to with prev_month, next_month.
GridMonths == {<<2023, 12>>, <<2024, 1>>}
RenderGrid ==
    \E ym \in GridMonths :
        /\ Fresh
        /\ last' = [Called("grid", ym, FALSE,
                           render_calendar_grid(tasks, ym[1], ym[2]))
                        EXCEPT !.msg = calendar_grid_rows(ym[1], ym[2])]
        /\ UNCHANGED <<tasks, nextId, timer, job>>

\* A second call that no longer finds the first row of the table.
RepeatConsuming ==
    /\ last.op \in {"range", "month"}
    /\ ~last.raised
    /\ last' = [last EXCEPT
                   !.op = "again",
                   !.msg = last.out,
                   !.out = IF last.op = "range"
                           THEN get_schedule_by_date_range(SubSeq(tasks, 2, Len(tasks)), last.a[1], last.a[2])
                           ELSE get_schedule_by_month(SubSeq(tasks, 2, Len(tasks)), last.a[1], last.a[2])]
    /\ UNCHANGED <<tasks, nextId, timer, job>>

\* The same range or month query issued again, with the arguments of the
\* first call, on the table the first call left.
Repeat ==
    /\ last.op \in {"range", "month"}
    /\ ~last.raised
    /\ last' = [last EXCEPT
                   !.op = "again",
                   !.msg = last.out,
                   !.out = IF last.op = "range"
                           THEN get_schedule_by_date_range(tasks, last.a[1], last.a[2])
                           ELSE get_schedule_by_month(tasks, last.a[1], last.a[2])]
    /\ UNCHANGED <<tasks, nextId, timer, job>>

NextStore ==
    \/ ToggleTask \/ DeleteTask \/ AddItem
    \/ RangeQuery \/ MonthQuery \/ TodayQuery \/ TodayFullQuery
    \/ RenderGrid \/ RenderPicker \/ Repeat \/ Return

SpecStore == InitStore /\ [][NextStore]_vars

(***************************************************************************)
(* SpecTasks: the task list next to the schedule views, on tables holding  *)
(* tasks and schedule items.                                               *)
(***************************************************************************)
\* The priority column is TEXT: ORDER BY priority compares the strings.
PriorityOrder(p) ==
    CASE p = "high" -> 1 [] p = "low" -> 2 [] p = "medium" -> 3

\* ORDER BY priority DESC, id DESC
ListedBefore(a, b) ==
    \/ PriorityOrder(a.priority) > PriorityOrder(b.priority)
    \/ (a.priority = b.priority /\ a.id > b.id)

\* SELECT id, title, start_time, source, completed, event_id,
\*        is_recurring, repeat_days, priority
TaskColumns(r) ==
    [id |-> r.id, title |-> r.title, start_time |-> r.start_time,
     source |-> r.source, completed |-> r.completed, event_id |-> r.event_id,
     is_recurring |-> r.is_recurring, repeat_days |-> r.repeat_days,
     priority |-> r.priority]

\* No limit given: limit is None and no LIMIT clause is appended.
NoLimit == 0

\* The task list without the test of start_time.
get_tasks_by_statusAnyStart(store, completed, limit) ==
    LET Test(r) == r.completed = (IF completed THEN 1 ELSE 0)
        sel == SelectSeq(store, Test)
        Place(i) == Cardinality({j \in 1..Len(sel) : ListedBefore(sel[j], sel[i])})
        ordered == [k \in 1..Len(sel) |->
                       TaskColumns(sel[CHOOSE i \in 1..Len(sel) : Place(i) = k - 1])]
    IN  IF limit = NoLimit THEN ordered ELSE Prefix(ordered, limit)
\* WHERE completed = ? AND start_time IS NULL
\* ORDER BY priority DESC, id DESC [LIMIT limit]
get_tasks_by_status(store, completed, limit) ==
    LET Test(r) == /\ r.completed = (IF completed THEN 1 ELSE 0)
                   /\ r.start_time.kind = "null"
        sel == SelectSeq(store, Test)
        Place(i) == Cardinality({j \in 1..Len(sel) : ListedBefore(sel[j], sel[i])})
        ordered == [k \in 1..Len(sel) |->
                       TaskColumns(sel[CHOOSE i \in 1..Len(sel) : Place(i) = k - 1])]
    IN  IF limit = NoLimit THEN ordered ELSE Prefix(ordered, limit)

\* Rows of a tasks.db the application has written: <<start_time,
\* completed, is_recurring, repeat_days, priority>>.
TaskShapes ==
    {<<NullText, 0, 0, NullDays, "medium">>,
     <<NullText, 0, 0, NullDays, "high">>,
     <<At(Wednesday, Nine), 0, 0, NullDays, "medium">>,
     <<At(Wednesday, HalfEight), 0, 1, DaysText(<<0, 2>>), "medium">>}
TaskRow(i, sh) == [ShapedRow(i, sh) EXCEPT !.priority = sh[5]]
TaskSeeds ==
    UNION {{[i \in 1..n |-> TaskRow(i, f[i])] : f \in [1..n -> TaskShapes]}
           : n \in 0..MaxRows}

InitTasks ==
    /\ tasks \in TaskSeeds
    /\ nextId = Len(tasks) + 1
    /\ last = NoCall
    /\ timer = IdleTimer
    /\ job = NoJob

\* add_task_from_popup: Task(title, start_time=None, priority) and add_task.
Priorities == {"high", "medium", "low"}
AddTaskFromPopup ==
    \E priority \in Priorities :
        /\ Fresh
        /\ Len(tasks) < MaxRows
        /\ tasks' = Append(tasks,
                       [Row(nextId, TitleOf(nextId), NullText, 0, "local", 0, NullDays)
                           EXCEPT !.priority = priority])
        /\ nextId' = nextId + 1
        /\ UNCHANGED <<timer, job>>
        /\ last' = Called("add_task", priority, FALSE, <<>>)

\* add_schedule_item called with a Task whose start_time is given or not.
ItemTimes == {NullText, At(Wednesday, Nine), At(Sunday, Nine)}
AddScheduleItem ==
    \E start_time \in ItemTimes :
        /\ Fresh
        /\ Len(tasks) < MaxRows
        /\ IF AddRaises(start_time)
           THEN /\ last' = Called("add_schedule_item", start_time, TRUE, <<>>)
                /\ UNCHANGED <<tasks, nextId, timer, job>>
           ELSE /\ tasks' = add_task(tasks, nextId, TitleOf(nextId), start_time, 0, NullDays)
                /\ nextId' = nextId + 1
                /\ UNCHANGED <<timer, job>>
                /\ last' = Called("add_schedule_item", start_time, FALSE, <<>>)

\* load_tasks and the insights call get_tasks_by_status.
TaskLimits == {NoLimit, 1}
TasksByStatus ==
    \E completed \in BOOLEAN, limit \in TaskLimits :
        /\ Fresh
        /\ last' = Called("tasks", <<completed, limit>>, FALSE,
                          get_tasks_by_status(tasks, completed, limit))
        /\ UNCHANGED <<tasks, nextId, timer, job>>

NextTasks ==
    \/ AddTaskFromPopup \/ AddScheduleItem \/ ToggleTask \/ TasksByStatus
    \/ RangeQuery \/ MonthQuery \/ TodayQuery \/ TodayFullQuery \/ Return

SpecTasks == InitTasks /\ [][NextTasks]_vars

(***************************************************************************)
(* PomodoroTimer.  The Clock calls _tick every second once start has       *)
(* scheduled it; start, pause, reset, set_minutes and set_hm are called by *)
(* the buttons, the popups and the voice commands.                         *)
(***************************************************************************)
\* The most calls of _show_done_popup counted after one reset.
MaxSessions == 2

\* _show_done_popup: the completion notification and complete_session.
ShowDonePopup(t) ==
    [t EXCEPT !.sessions = IF @ < MaxSessions THEN @ + 1 ELSE @]

\* _tick
Tick(t) ==
    IF ~t.is_running THEN t
    ELSE LET counted == IF t.remaining_seconds > 0
                        THEN [t EXCEPT !.remaining_seconds = @ - 1]
                        ELSE t
         IN  IF /\ counted.session_start_seconds # None
                /\ counted.session_start_seconds > 0
                /\ counted.remaining_seconds <= 0
             THEN LET paused == [counted EXCEPT !.is_running = FALSE]
                  IN  IF ~paused.notified
                      THEN ShowDonePopup([paused EXCEPT !.notified = TRUE])
                      ELSE paused
             ELSE counted

\* start
StartTimer(t) ==
    IF t.is_running THEN t
    ELSE [t EXCEPT !.is_running = TRUE,
                   !.notified = FALSE,
                   !.session_start_seconds =
                       IF @ = None THEN t.remaining_seconds ELSE @,
                   !.scheduled_event = TRUE]

\* pause
PauseTimer(t) == [t EXCEPT !.is_running = FALSE]

\* The end of reset, set_minutes and set_hm: pause, then the new default
\* and a cleared session.
Cleared(t, total_seconds) ==
    [PauseTimer(t) EXCEPT !.default_seconds = total_seconds,
                          !.remaining_seconds = total_seconds,
                          !.notified = FALSE,
                          !.session_start_seconds = None,
                          !.sessions = 0]

\* reset(minutes): minutes is <<>> for None, <<n>> for n.
ResetTimer(t, minutes) ==
    Cleared(t, IF minutes = <<>> THEN 0 ELSE minutes[1] * 60)

\* set_minutes(value): value is a record, kind "empty" for '', "junk" for
\* text int() refuses, "plain" for 'M' and "colon" for 'M:SS'.
SetMinutes(t, value) ==
    CASE value.kind \in {"empty", "junk"} -> t
      [] value.kind = "plain" ->
            Cleared(t, IF value.m * 60 > 0 THEN value.m * 60 ELSE 0)
      [] value.kind = "colon" ->
            Cleared(t, IF value.m * 60 + value.s > 0
                       THEN value.m * 60 + value.s ELSE 0)

\* set_hm(hours, minutes)
SetHm(t, hours, minutes) ==
    Cleared(t, IF hours * 3600 + minutes * 60 > 0
               THEN hours * 3600 + minutes * 60 ELSE 0)

InitTimer ==
    /\ tasks = <<>>
    /\ nextId = 1
    /\ last = NoCall
    /\ timer = IdleTimer
    /\ job = NoJob

\* What the calls are given.
ResetInputs == {<<>>, <<0>>, <<1>>}
MinutesInputs ==
    {[kind |-> "empty", m |-> 0, s |-> 0], [kind |-> "junk", m |-> 0, s |-> 0],
     [kind |-> "plain", m |-> 1, s |-> 0], [kind |-> "colon", m |-> 0, s |-> 3],
     [kind |-> "colon", m |-> -1, s |-> 0]}
HmInputs == {<<0, 0>>, <<0, 1>>, <<0, -1>>}

TimerTick ==
    /\ Fresh
    /\ timer.scheduled_event
    /\ timer' = Tick(timer)
    /\ last' = Called("tick", timer, FALSE, <<>>)
    /\ UNCHANGED <<tasks, nextId, job>>

TimerStart ==
    /\ Fresh
    /\ timer' = StartTimer(timer)
    /\ last' = Called("start", timer, FALSE, <<>>)
    /\ UNCHANGED <<tasks, nextId, job>>

TimerPause ==
    /\ Fresh
    /\ timer' = PauseTimer(timer)
    /\ last' = Called("pause", timer, FALSE, <<>>)
    /\ UNCHANGED <<tasks, nextId, job>>

TimerReset ==
    \E minutes \in ResetInputs :
        /\ Fresh
        /\ timer' = ResetTimer(timer, minutes)
        /\ last' = Called("reset", timer, FALSE, minutes)
        /\ UNCHANGED <<tasks, nextId, job>>

TimerSetMinutes ==
    \E value \in MinutesInputs :
        /\ Fresh
        /\ timer' = SetMinutes(timer, value)
        /\ last' = Called("set_minutes", timer, FALSE, <<value>>)
        /\ UNCHANGED <<tasks, nextId, job>>

TimerSetHm ==
    \E hm \in HmInputs :
        /\ Fresh
        /\ timer' = SetHm(timer, hm[1], hm[2])
        /\ last' = Called("set_hm", timer, FALSE, hm)
        /\ UNCHANGED <<tasks, nextId, job>>

NextTimer ==
    \/ TimerTick \/ TimerStart \/ TimerPause
    \/ TimerReset \/ TimerSetMinutes \/ TimerSetHm \/ Return

SpecTimer == InitTimer /\ [][NextTimer]_vars

(***************************************************************************)
(* add_event_voice called from a background thread: the thread schedules   *)
(* _check_and_add_on_main_thread on the Clock, waits at most 0.2 seconds   *)
(* for result_event and reads result_container; the main thread runs the   *)
(* callback at a frame of its own choosing, before or after the wait ends. *)
(***************************************************************************)
\* The call up to result_event.wait: the title test, start_time and the
\* callback scheduled with Clock.schedule_once.
VoiceFromThread ==
    \E title \in VoiceTitles, ts \in VoiceTimes, d \in PopupDates :
        /\ job.pc = "idle"
        /\ Len(tasks) < MaxRows
        /\ job' = IF title = ""
                  THEN [NoJob EXCEPT !.pc = "returned", !.a = <<title, ts, d>>,
                                     !.reply = "title", !.before = tasks]
                  ELSE [NoJob EXCEPT !.pc = "waiting", !.callback = "scheduled",
                                     !.a = <<title, ts, d>>,
                                     !.start_time = VoiceStartTime(d, ts),
                                     !.before = tasks]
        /\ UNCHANGED <<tasks, nextId, last, timer>>

\* _check_and_add_on_main_thread: the conflict check when start_time is
\* given, result_container['conflict_message'], add_schedule_item when the
\* message is None (its ValueError for a missing start_time is caught by
\* the except clause of the callback), then done and result_event.set().
CheckAndAddOnMainThread ==
    /\ job.callback = "scheduled"
    /\ LET start_time == job.start_time
           dt_obj == FromIsoFormat(start_time)
           existing == get_schedule_by_date_range(tasks, dt_obj.date, dt_obj.date)
           conflict == /\ ~AddRaises(start_time)
                       /\ TimeKey(dt_obj) \in EventTimeKeys(existing, dt_obj.date)
       IN  IF conflict
           THEN /\ job' = [job EXCEPT !.callback = "done", !.done = TRUE,
                              !.conflict_message = <<ConflictMessage(existing, dt_obj)>>]
                /\ UNCHANGED <<tasks, nextId>>
           ELSE IF AddRaises(start_time)
           THEN /\ job' = [job EXCEPT !.callback = "done", !.done = TRUE]
                /\ UNCHANGED <<tasks, nextId>>
           ELSE /\ tasks' = add_task(tasks, nextId, job.a[1], start_time, 0, NullDays)
                /\ nextId' = nextId + 1
                /\ job' = [job EXCEPT !.callback = "done", !.done = TRUE]
    /\ UNCHANGED <<last, timer>>

\* result_event.wait(timeout=0.2) returns, the event being set or the
\* time being over, and the thread returns the conflict message if
\* result_container holds one and response_msg otherwise.
WaitReturns ==
    /\ job.pc = "waiting"
    /\ job' = [job EXCEPT !.pc = "returned",
                          !.reply = IF job.conflict_message # <<>>
                                    THEN "conflict" ELSE "added"]
    /\ UNCHANGED <<tasks, nextId, last, timer>>

\* The caller has its answer and the callback has run: the next command.
NextCommand ==
    /\ job.pc = "returned"
    /\ job.callback # "scheduled"
    /\ job' = NoJob
    /\ UNCHANGED <<tasks, nextId, last, timer>>

InitThread ==
    /\ tasks = <<>>
    /\ nextId = 1
    /\ last = NoCall
    /\ timer = IdleTimer
    /\ job = NoJob

NextThread ==
    VoiceFromThread \/ CheckAndAddOnMainThread \/ WaitReturns \/ NextCommand

SpecThread == InitThread /\ [][NextThread]_vars

(***************************************************************************)
(* SpecFormat: the text of a suggestion for every minute of the day.       *)
(***************************************************************************)
InitFormat ==
    /\ tasks = <<>>
    /\ nextId = 1
    /\ last = NoCall
    /\ timer = IdleTimer
    /\ job = NoJob

FormatSuggestion ==
    \E h \in 0..23, m \in 0..59 :
        /\ Fresh
        /\ last' = Called("format", <<h, m>>, FALSE,
                          <<Format12(Combine(Wednesday, <<h, m, 0>>))>>)
        /\ UNCHANGED <<tasks, nextId, timer, job>>

NextFormat == FormatSuggestion \/ Return

SpecFormat == InitFormat /\ [][NextFormat]_vars

(***************************************************************************)
(* A reference calendar for the properties: the days of December 2023 to   *)
(* March 2024 counted one by one from Friday 1 December 2023.              *)
(***************************************************************************)
RefMonths == {<<2023, 12, 31>>, <<2024, 1, 31>>, <<2024, 2, 29>>, <<2024, 3, 31>>}
RefDates == UNION {{<<ml[1], ml[2], d>> : d \in 1..ml[3]} : ml \in RefMonths}
RefIndex == [d \in RefDates |-> Cardinality({x \in RefDates : DateLT(x, d)})]
RefWeekday(d) == (RefIndex[d] + 4) % 7
RefBetween(lo, hi) == {d \in RefDates : DateLE(lo, d) /\ DateLE(d, hi)}

\* What a returned entry says: its date, its time, its instant in seconds.
EntryDate(e) == <<Num4(e.start_time.s, 1), Num2(e.start_time.s, 5), Num2(e.start_time.s, 7)>>
EntryTime(e) == <<Num2(e.start_time.s, 9), Num2(e.start_time.s, 11), Num2(e.start_time.s, 13)>>
EntryInstant(e) ==
    RefIndex[EntryDate(e)] * 86400
    + EntryTime(e)[1] * 3600 + EntryTime(e)[2] * 60 + EntryTime(e)[3]

DaySet(rd) == {rd.days[i] : i \in 1..Len(rd.days)}
Indexes(out, id, d) ==
    {k \in 1..Len(out) :
        out[k].id = id /\ out[k].start_time.kind = "iso" /\ EntryDate(out[k]) = d}

LiveRecurring(r) ==
    r.completed = 0 /\ r.is_recurring = 1 /\ CanParse(r.start_time)
LiveOneShot(r) ==
    r.completed = 0 /\ r.is_recurring = 0 /\ CanParse(r.start_time)

\* C1: a range query returns, for every live recurring item and every date
\* of the range, one occurrence on that date when the date's weekday is in
\* repeat_days and none otherwise; the occurrence is the item's row with
\* the date replaced and the stored time of day kept.
C1_RecurringExpansion ==
    last.op = "range" =>
        \A i \in 1..Len(tasks) :
            LiveRecurring(tasks[i]) =>
                \A d \in RefBetween(last.a[1], last.a[2]) :
                    LET occ == Indexes(last.out, tasks[i].id, d)
                    IN  /\ IF RefWeekday(d) \in DaySet(tasks[i].repeat_days)
                           THEN Cardinality(occ) = 1
                           ELSE occ = {}
                        /\ \A k \in occ :
                            /\ EntryTime(last.out[k])
                                 = FromIsoFormat(tasks[i].start_time).time
                            /\ [last.out[k] EXCEPT !.start_time = NullText]
                                 = [Columns(tasks[i]) EXCEPT !.start_time = NullText]

\* C1 witness: a recurring item anchored on Wednesday 3 January has
\* occurrences both before and after its anchor in Dec 28 .. Jan 10.
C1_Witness ==
    /\ last.op = "range"
    /\ \E i \in 1..Len(tasks) :
        /\ LiveRecurring(tasks[i])
        /\ EntryDate(tasks[i]) = Wednesday
        /\ Indexes(last.out, tasks[i].id, <<2024, 1, 1>>) # {}
        /\ Indexes(last.out, tasks[i].id, <<2024, 1, 8>>) # {}
        /\ Indexes(last.out, tasks[i].id, <<2024, 1, 2>>) = {}

\* C2: a range query returns every live one-shot item dated inside the
\* range exactly once, as stored, and no one-shot item dated outside it.
C2_OneShotOnce ==
    last.op = "range" =>
        \A i \in 1..Len(tasks) :
            LiveOneShot(tasks[i]) =>
                LET hits == {k \in 1..Len(last.out) : last.out[k].id = tasks[i].id}
                IN  IF EntryDate(tasks[i]) \in RefBetween(last.a[1], last.a[2])
                    THEN /\ Cardinality(hits) = 1
                         /\ \A k \in hits : last.out[k] = Columns(tasks[i])
                    ELSE hits = {}

\* C2 witness: one one-shot item inside the range is returned and another,
\* outside the range, is not.
C2_Witness ==
    /\ last.op = "range"
    /\ \E i, j \in 1..Len(tasks) :
        /\ LiveOneShot(tasks[i]) /\ LiveOneShot(tasks[j])
        /\ EntryDate(tasks[i]) \in RefBetween(last.a[1], last.a[2])
        /\ EntryDate(tasks[j]) \notin RefBetween(last.a[1], last.a[2])
        /\ \E k \in 1..Len(last.out) : last.out[k] = Columns(tasks[i])

\* C3: the list a range or month query returns is in ascending order of
\* the entries' instants.
C3_SortedByInstant ==
    (last.op \in {"range", "month"} /\ ~last.raised) =>
        \A k \in 1..(Len(last.out) - 1) :
            EntryInstant(last.out[k]) <= EntryInstant(last.out[k + 1])

\* C3 witness: a recurring occurrence stands before a one-shot item of the
\* same day that was selected before it.
C3_Witness ==
    /\ last.op \in {"range", "month"}
    /\ \E k \in 1..(Len(last.out) - 1) :
        /\ last.out[k].is_recurring = 1
        /\ last.out[k + 1].is_recurring = 0
        /\ EntryDate(last.out[k]) = EntryDate(last.out[k + 1])
        /\ EntryInstant(last.out[k]) < EntryInstant(last.out[k + 1])

\* C7: a range query whose end date is before its start date reports an
\* error to the caller instead of returning a list.
C7_InvalidRangeFailsFast ==
    (last.op = "range" /\ DateLT(last.a[2], last.a[1])) => last.raised

\* C8: a recurring item whose start_time cannot be parsed yields no
\* occurrence, and the range query returns what it returns for the table
\* without that item.
Malformed(r) == r.is_recurring = 1 /\ ~CanParse(r.start_time)
WithoutMalformed(store) ==
    LET Test(r) == ~Malformed(r) IN SelectSeq(store, Test)
C8_MalformedSkipped ==
    last.op = "range" =>
        /\ ~last.raised
        /\ \A i \in 1..Len(tasks) : \A k \in 1..Len(last.out) :
            Malformed(tasks[i]) => last.out[k].id # tasks[i].id
        /\ last.out = get_schedule_by_date_range(
                          WithoutMalformed(tasks), last.a[1], last.a[2])

\* C8 witness: a malformed recurring item stands in the table before a
\* well-formed one repeating on the same weekday, whose occurrence is
\* returned.
C8_Witness ==
    /\ last.op = "range"
    /\ \E i, j \in 1..Len(tasks) :
        /\ i < j
        /\ Malformed(tasks[i]) /\ tasks[i].completed = 0
        /\ LiveRecurring(tasks[j])
        /\ DaySet(tasks[i].repeat_days) \cap DaySet(tasks[j].repeat_days) # {}
        /\ \E k \in 1..Len(last.out) :
            /\ last.out[k].id = tasks[j].id
            /\ RefWeekday(EntryDate(last.out[k])) \in DaySet(tasks[i].repeat_days)

\* C9: no range, month or today query returns an occurrence of a recurring
\* item on the item's anchor date when the anchor's weekday is not in
\* repeat_days.
OffAnchor(r) ==
    /\ r.is_recurring = 1
    /\ CanParse(r.start_time)
    /\ RefWeekday(EntryDate(r)) \notin DaySet(r.repeat_days)
C9_AnchorNotAnOccurrence ==
    (last.op \in {"range", "month", "today", "today_full"} /\ ~last.raised) =>
        \A i \in 1..Len(tasks) : \A k \in 1..Len(last.out) :
            OffAnchor(tasks[i]) =>
                ~ /\ EntryDate(last.out[k]) = EntryDate(tasks[i])
                  /\ IF last.op = "today"
                     THEN last.out[k].title = tasks[i].title
                     ELSE last.out[k].id = tasks[i].id

\* C9 witness: a range covering the anchor date of such an item returns
\* its occurrence of another day.
C9_Witness ==
    /\ last.op = "range"
    /\ \E i \in 1..Len(tasks) :
        /\ OffAnchor(tasks[i])
        /\ EntryDate(tasks[i]) \in RefBetween(last.a[1], last.a[2])
        /\ \E k \in 1..Len(last.out) : last.out[k].id = tasks[i].id

\* C10: a range that crosses a month or year boundary returns, for every
\* live recurring item, occurrences on exactly the calendar dates of the
\* range whose weekday is in repeat_days, one for each such date.
CrossesBoundary(lo, hi) ==
    DateLE(lo, hi) /\ <<lo[1], lo[2]>> # <<hi[1], hi[2]>>
C10_BoundaryCrossing ==
    (last.op = "range" /\ CrossesBoundary(last.a[1], last.a[2])) =>
        \A i \in 1..Len(tasks) :
            LiveRecurring(tasks[i]) /\ ~tasks[i].repeat_days.null =>
                LET mine == {k \in 1..Len(last.out) : last.out[k].id = tasks[i].id}
                    want == {d \in RefBetween(last.a[1], last.a[2]) :
                                RefWeekday(d) \in DaySet(tasks[i].repeat_days)}
                IN  /\ {EntryDate(last.out[k]) : k \in mine} = want
                    /\ Cardinality(mine) = Cardinality(want)

\* C10 witness: a Sunday item is returned on 31 December 2023 and on
\* 7 January 2024 by the range 28 December .. 10 January.
C10_Witness ==
    /\ last.op = "range"
    /\ CrossesBoundary(last.a[1], last.a[2])
    /\ \E i \in 1..Len(tasks) :
        /\ LiveRecurring(tasks[i])
        /\ Indexes(last.out, tasks[i].id, <<2023, 12, 31>>) # {}
        /\ Indexes(last.out, tasks[i].id, <<2024, 1, 7>>) # {}

(***************************************************************************)
(* Occupancy stated on the table itself: the rows that have an occurrence  *)
(* on a date at an hour and minute.                                        *)
(***************************************************************************)
OccursAt(r, d, hm) ==
    /\ r.completed = 0
    /\ CanParse(r.start_time)
    /\ <<EntryTime(r)[1], EntryTime(r)[2]>> = hm
    /\ \/ r.is_recurring = 0 /\ EntryDate(r) = d
       \/ r.is_recurring = 1 /\ RefWeekday(d) \in DaySet(r.repeat_days)
Occupied(store, d, hm, except) ==
    \E i \in 1..Len(store) : store[i].id # except /\ OccursAt(store[i], d, hm)

\* The candidate of the last create or voice call.
HasCandidate ==
    /\ last.op \in {"create", "voice"}
    /\ last.verdict \notin {"invalid", "error"}
CandDate == IF last.op = "create" THEN last.a.date ELSE last.a[3]
CandTime ==
    IF last.op = "create" THEN last.a.time
    ELSE <<ParseTimeStr(last.a[2])[1], ParseTimeStr(last.a[2])[2]>>

\* C4: a creation from the popup or by voice is rejected as a conflict
\* exactly when some occurrence of the candidate's date has the
\* candidate's hour and minute; a rejected candidate leaves the table as
\* it was and an accepted one is appended to it.
C4_ExactMinuteConflict ==
    HasCandidate =>
        /\ (last.verdict = "conflict") <=> Occupied(last.before, CandDate, CandTime, 0)
        /\ last.verdict = "conflict" => tasks = last.before
        /\ last.verdict # "conflict" =>
            /\ last.verdict = "added"
            /\ Len(tasks) = Len(last.before) + 1
            /\ SubSeq(tasks, 1, Len(last.before)) = last.before
            /\ EntryDate(tasks[Len(tasks)]) = CandDate
            /\ <<EntryTime(tasks[Len(tasks)])[1], EntryTime(tasks[Len(tasks)])[2]>>
                 = CandTime

\* C4 witness: a creation at 14:00 is rejected on a date whose 14:00 is
\* taken, the table also holding an occurrence one minute later that was
\* accepted beside it.
C4_Witness ==
    /\ last.op = "create"
    /\ last.verdict = "conflict"
    /\ CandTime = <<14, 0>>
    /\ Occupied(last.before, CandDate, <<14, 0>>, 0)
    /\ Occupied(last.before, CandDate, <<14, 1>>, 0)
    /\ tasks = last.before

\* C5: an edit is rejected as a conflict exactly when an occurrence of
\* another item has the candidate's date, hour and minute; the edited
\* item's own occurrences do not count.  A rejected edit leaves the table
\* as it was and an accepted one stores the title, time and recurring flag.
C5_EditExcludesItself ==
    (last.op = "update" /\ last.verdict # "invalid") =>
        LET id == last.a[1]
            form == last.a[2]
        IN  /\ (last.verdict = "conflict")
                 <=> Occupied(last.before, form.date, form.time, id)
            /\ last.verdict = "conflict" => tasks = last.before
            /\ last.verdict # "conflict" =>
                /\ last.verdict = "updated"
                /\ Len(tasks) = Len(last.before)
                /\ \A i \in 1..Len(tasks) :
                    IF last.before[i].id # id THEN tasks[i] = last.before[i]
                    ELSE /\ tasks[i].title = form.title
                         /\ EntryDate(tasks[i]) = form.date
                         /\ EntryTime(tasks[i]) = <<form.time[1], form.time[2], 0>>
                         /\ tasks[i].is_recurring = (IF form.is_recurring THEN 1 ELSE 0)

\* C5 witness: an item is edited to the date and minute it already
\* occupies and the edit is stored.
C5_Witness ==
    /\ last.op = "update"
    /\ last.verdict = "updated"
    /\ Occupied(last.before, last.a[2].date, last.a[2].time, 0)
    /\ ~Occupied(last.before, last.a[2].date, last.a[2].time, last.a[1])

\* C6: the suggestions of a voice conflict are the first three at most of
\* the times 60 and 30 minutes before and 30 and 60 minutes after the
\* candidate, in that order, whose hour and minute no occurrence of the
\* candidate's date has.
Probes(dt) ==
    <<AddMinutes(dt, -60), AddMinutes(dt, -30), AddMinutes(dt, 30), AddMinutes(dt, 60)>>
FreeProbes(store, dt) ==
    LET Test(alt) == ~Occupied(store, dt.date, TimeKey(alt), 0)
    IN  SelectSeq(Probes(dt), Test)
C6_SuggestionsInProbeOrder ==
    (last.op = "voice" /\ last.verdict = "conflict") =>
        LET dt == Combine(CandDate, <<CandTime[1], CandTime[2], 0>>)
            free == FreeProbes(last.before, dt)
            n == IF Len(free) < 3 THEN Len(free) ELSE 3
        IN  last.msg.suggestions = [i \in 1..n |-> Format12(free[i])]

\* C6 witness: the slot 60 minutes before the candidate is taken, and the
\* three other probes are suggested.
C6_Witness ==
    /\ last.op = "voice"
    /\ last.verdict = "conflict"
    /\ Occupied(last.before, CandDate, <<CandTime[1] - 1, CandTime[2]>>, 0)
    /\ Len(last.msg.suggestions) = 3

(***************************************************************************)
(* The today views.                                                        *)
(***************************************************************************)
\* The rows that have an occurrence on a date, and the second of the day
\* at which a row's occurrence starts.
OccursOn(r, d) ==
    \/ LiveOneShot(r) /\ EntryDate(r) = d
    \/ LiveRecurring(r) /\ RefWeekday(d) \in DaySet(r.repeat_days)
SecondOfDay(r) == EntryTime(r)[1] * 3600 + EntryTime(r)[2] * 60 + EntryTime(r)[3]

\* C11: a today query with limit N returns the N earliest of today's
\* occurrences, one-shot and recurring together, in ascending order: every
\* occurrence left out starts no earlier than every occurrence returned.
C11_TruncateAfterSort ==
    last.op \in {"today", "today_full"} =>
        LET today == last.a[1]
            limit == last.a[2]
            occ == {i \in 1..Len(tasks) : OccursOn(tasks[i], today)}
            shown == {i \in occ :
                         \E k \in 1..Len(last.out) :
                             /\ last.out[k].title = tasks[i].title
                             /\ EntryDate(last.out[k]) = today
                             /\ EntryTime(last.out[k]) = EntryTime(tasks[i])}
        IN  /\ Len(last.out) = (IF Cardinality(occ) < limit
                                THEN Cardinality(occ) ELSE limit)
            /\ Cardinality(shown) = Len(last.out)
            /\ \A i \in occ \ shown : \A j \in shown :
                SecondOfDay(tasks[j]) <= SecondOfDay(tasks[i])
            /\ \A k \in 1..(Len(last.out) - 1) :
                EntryInstant(last.out[k]) <= EntryInstant(last.out[k + 1])

\* C11 witness: with limit 1, a recurring occurrence at 08:30 is returned
\* and the one-shot item of 09:00 the same day is the one left out.
C11_Witness ==
    /\ last.op = "today_full"
    /\ last.a[2] = 1
    /\ Len(last.out) = 1
    /\ last.out[1].is_recurring = 1
    /\ \E i \in 1..Len(tasks) :
        /\ LiveOneShot(tasks[i])
        /\ EntryDate(tasks[i]) = last.a[1]
        /\ SecondOfDay(tasks[i]) > SecondOfDay(last.out[1])

(***************************************************************************)
(* The views of a table: what the four queries return for it over the      *)
(* dates, months and limits asked.                                         *)
(***************************************************************************)
AllViews(store) ==
    {get_schedule_by_date_range(store, r[1], r[2]) : r \in RangeInputs}
    \cup {get_schedule_by_month(store, ym[1], ym[2]) :
             ym \in {x \in MonthInputs : ~MonthRaises(x[1], x[2])}}
    \cup {get_today_schedule_full(store, t, n) : t \in TodayInputs, n \in Limits}
ShownIds(store) ==
    UNION {{out[k].id : k \in 1..Len(out)} : out \in AllViews(store)}
ShownTitles(store) ==
    UNION {{get_today_schedule(store, t, n)[k].title :
               k \in 1..Len(get_today_schedule(store, t, n))}
           : <<t, n>> \in TodayInputs \X Limits}
IsQuery == last.op \in {"range", "month", "today", "today_full"} /\ ~last.raised
RowsOf(store, k) ==
    {i \in 1..Len(store) :
        IF last.op = "today" THEN store[i].title = last.out[k].title
        ELSE store[i].id = last.out[k].id}
RowWithId(store, id) == store[CHOOSE i \in 1..Len(store) : store[i].id = id]
HasId(store, id) == \E i \in 1..Len(store) : store[i].id = id

\* C12: no view returns an occurrence of a completed item; when
\* toggle_task_completion completes an item, none of the views holds an
\* occurrence of it, and when it is toggled back the views hold its
\* occurrences again.
C12_CompletedHidden ==
    /\ IsQuery =>
        \A k \in 1..Len(last.out) :
            /\ RowsOf(tasks, k) # {}
            /\ \A i \in RowsOf(tasks, k) : tasks[i].completed = 0
    /\ (last.op = "toggle" /\ last.out[1]) =>
        LET id == last.a
            now == RowWithId(tasks, id)
            was == RowWithId(last.before, id)
        IN  /\ HasId(tasks, id)
            /\ now = [was EXCEPT !.completed = 1 - was.completed]
            /\ \A i \in 1..Len(tasks) :
                tasks[i].id # id => tasks[i] = last.before[i]
            /\ IF now.completed = 1
               THEN /\ id \notin ShownIds(tasks)
                    /\ now.title \notin ShownTitles(tasks)
               ELSE /\ id \in ShownIds(tasks)
                    /\ now.title \in ShownTitles(tasks)

\* C12 witness: a recurring item that had been completed is toggled back
\* and the views, which held no occurrence of it, hold them again.
C12_Witness ==
    /\ last.op = "toggle"
    /\ last.out[1]
    /\ RowWithId(last.before, last.a).completed = 1
    /\ RowWithId(tasks, last.a).is_recurring = 1
    /\ last.a \notin ShownIds(last.before)
    /\ last.a \in ShownIds(tasks)

C16_DeleteRemovesSeries ==
    /\ \A i \in 1..Len(tasks) : tasks[i].id < nextId
    /\ IsQuery => \A k \in 1..Len(last.out) : RowsOf(tasks, k) # {}
    /\ last.op = "delete" =>
        LET id == last.a
            pos == {i \in 1..Len(last.before) : last.before[i].id = id}
        IN  /\ last.out[1] = (pos # {})
            /\ pos = {} => tasks = last.before
            /\ pos # {} =>
                /\ Len(tasks) = Len(last.before) - 1
                /\ \A k \in 1..Len(tasks) :
                    tasks[k] = last.before[IF \E i \in pos : i <= k THEN k + 1 ELSE k]
                /\ id \notin ShownIds(tasks)
                /\ RowWithId(last.before, id).title \notin ShownTitles(tasks)

\* C16 witness: a recurring item whose occurrences the views held is
\* deleted, and the views hold the other item only.
C16_Witness ==
    /\ last.op = "delete"
    /\ last.out[1]
    /\ RowWithId(last.before, last.a).is_recurring = 1
    /\ last.a \in ShownIds(last.before)
    /\ last.a \notin ShownIds(tasks)
    /\ ShownIds(tasks) # {}

(***************************************************************************)
(* The month view.                                                         *)
(***************************************************************************)
DaysOfMonth(y, m) == {d \in RefDates : d[1] = y /\ d[2] = m}
EntriesOf(out, id) == {k \in 1..Len(out) : out[k].id = id}

\* C14: a month query for a month outside 1..12 raises an error to the
\* caller and yields no list; a query for December is answered, with 1
\* January of the next year as the bound that is not included.
C14_MonthOutOfRange ==
    last.op = "month" =>
        /\ last.a[2] \notin 1..12 => (last.raised /\ last.out = <<>>)
        /\ last.a[2] \in 1..12 => ~last.raised
        /\ last.a[2] = 12 =>
            /\ \A k \in 1..Len(last.out) :
                EntryDate(last.out[k]) \in DaysOfMonth(last.a[1], 12)
            /\ \A i \in 1..Len(tasks) :
                OccursOn(tasks[i], <<last.a[1], 12, 31>>) =>
                    Indexes(last.out, tasks[i].id, <<last.a[1], 12, 31>>) # {}

\* C14 witness: month 13 is asked of a table that holds an item, and the
\* call raises.
C14_Witness ==
    /\ last.op = "month"
    /\ last.a[2] = 13
    /\ last.raised
    /\ \E i \in 1..Len(tasks) : LiveOneShot(tasks[i]) \/ LiveRecurring(tasks[i])

\* C19: a month query returns occurrences dated inside the month only;
\* every live one-shot item of the month once, and for every live
\* recurring item one occurrence on each day of the month, the last
\* included, whose weekday is in repeat_days; none on the first day of the
\* next month.
C19_MonthHalfOpen ==
    (last.op = "month" /\ ~last.raised) =>
        LET days == DaysOfMonth(last.a[1], last.a[2])
        IN  /\ \A k \in 1..Len(last.out) : EntryDate(last.out[k]) \in days
            /\ \A i \in 1..Len(tasks) :
                LET mine == EntriesOf(last.out, tasks[i].id)
                    want == {d \in days : OccursOn(tasks[i], d)}
                IN  /\ {EntryDate(last.out[k]) : k \in mine} = want
                    /\ Cardinality(mine) = Cardinality(want)

\* C19 witness: December 2023 holds the Sunday item on the 31st, and the
\* Monday item on the 25th but not on 1 January.
C19_Witness ==
    /\ last.op = "month"
    /\ last.a = <<2023, 12>>
    /\ \E i, j \in 1..Len(tasks) :
        /\ LiveRecurring(tasks[i]) /\ LiveRecurring(tasks[j])
        /\ Indexes(last.out, tasks[i].id, <<2023, 12, 31>>) # {}
        /\ Indexes(last.out, tasks[j].id, <<2023, 12, 25>>) # {}
        /\ 0 \in DaySet(tasks[j].repeat_days)
        /\ Indexes(last.out, tasks[j].id, <<2024, 1, 1>>) = {}

\* C15: when the candidate's minute is taken and so are all four probed
\* times on the candidate's date, add_event_voice answers with the
\* conflict message that closes with 'Please choose a different time.' and
\* lists no time, and the table is as it was.
AllProbesTaken ==
    /\ last.op = "voice"
    /\ last.verdict \notin {"invalid", "error"}
    /\ Occupied(last.before, CandDate, CandTime, 0)
    /\ \A off \in {-60, -30, 30, 60} :
        Occupied(last.before, CandDate,
                 TimeKey(AddMinutes(Combine(CandDate, <<CandTime[1], CandTime[2], 0>>),
                                    off)), 0)
LastForm == IF last.op = "update" THEN last.a[2] ELSE last.a

\* C17: after any creations and edits every stored item that is recurring
\* has at least one day in repeat_days, and a create or edit with
\* recurring switched on and no day selected is refused and leaves the
\* table as it was.
C17_RecurringHasDays ==
    /\ \A i \in 1..Len(tasks) :
        tasks[i].is_recurring = 1 =>
            (~tasks[i].repeat_days.null /\ DaySet(tasks[i].repeat_days) # {})
    /\ (/\ last.op \in {"create", "update"}
        /\ LastForm.is_recurring
        /\ LastForm.days = {}) =>
            (last.verdict = "invalid" /\ tasks = last.before)

\* C17 witness: an edit that switches recurring on with no day selected is
\* refused on a table that holds a recurring item.
C17_Witness ==
    /\ last.op = "update"
    /\ LastForm.title # ""
    /\ LastForm.is_recurring
    /\ LastForm.days = {}
    /\ last.verdict = "invalid"
    /\ tasks = last.before
    /\ \E i \in 1..Len(tasks) : tasks[i].is_recurring = 1

\* C18: after any creations and edits every stored item that is not
\* recurring has no repeat_days, also when it was recurring before an edit.
C18_NonRecurringHasNoDays ==
    \A i \in 1..Len(tasks) :
        tasks[i].is_recurring = 0 =>
            (tasks[i].repeat_days.null \/ DaySet(tasks[i].repeat_days) = {})

\* C20: for every day of the month shown, has_events is true exactly when
\* the month expansion holds a non-recurring occurrence of that date, and
\* has_recurring_events exactly when it holds a recurring one; neither
\* depends on the other.
C20_GridIndicators ==
    last.op = "grid" =>
        LET y == last.a[1]
            m == last.a[2]
            month == get_schedule_by_month(tasks, y, m)
            Has(d, rec) ==
                \E k \in 1..Len(month) :
                    /\ EntryDate(month[k]) = d
                    /\ (month[k].is_recurring = 1) = rec
        IN  /\ {<<y, m, day>> : day \in 1..Len(last.out)} = DaysOfMonth(y, m)
            /\ \A day \in 1..Len(last.out) :
                /\ last.out[day].has_events = Has(<<y, m, day>>, FALSE)
                /\ last.out[day].has_recurring_events = Has(<<y, m, day>>, TRUE)

\* C20 witness: one day of the grid has the recurring indicator alone,
\* another the other indicator alone, and most days have neither.
C20_Witness ==
    /\ last.op = "grid"
    /\ \E a, b, c \in 1..Len(last.out) :
        /\ last.out[a].has_recurring_events /\ ~last.out[a].has_events
        /\ last.out[b].has_events /\ ~last.out[b].has_recurring_events
        /\ ~last.out[c].has_events /\ ~last.out[c].has_recurring_events

(***************************************************************************)
(* What the queries leave behind.                                          *)
(***************************************************************************)
\* C21: a step that is a call of one of the four queries leaves the table,
\* every row and every field of it, and the next rowid as they were: no
\* occurrence the query builds becomes a row.
C21_QueriesReadOnly ==
    [][last'.op \in {"range", "month", "today", "today_full"}
          => (tasks' = tasks /\ nextId' = nextId)]_vars

\* C21 witness: a range query has returned more occurrences than the table
\* has rows, and the table is the one the query was given.
C21_Witness ==
    /\ last.op = "range"
    /\ Len(last.out) > Len(tasks)
    /\ \E k \in 1..Len(last.out) : last.out[k].is_recurring = 1
    /\ tasks = last.before
    /\ nextId = Len(tasks) + 1

\* C22: a suggested time is written on the 12-hour clock: hours 0 and 12
\* as 12, hours 13 to 23 as 1 to 11, am below hour 12 and pm from it on,
\* the minute as two digits after the hour unless it is zero, when it is
\* left out.
C22_TwelveHourText ==
    last.op = "format" =>
        LET h == last.a[1]
            m == last.a[2]
            text == last.out[1]
        IN  /\ text.h = (IF h \in {0, 12} THEN 12 ELSE IF h > 12 THEN h - 12 ELSE h)
            /\ text.h \in 1..12
            /\ text.ampm = (IF h < 12 THEN "am" ELSE "pm")
            /\ text.mm = (IF m = 0 THEN <<>> ELSE <<m \div 10, m % 10>>)

\* C22 witness: 00:30 is written 12:30am.
C22_Witness ==
    /\ last.op = "format"
    /\ last.a = <<0, 30>>
    /\ last.out[1] = [h |-> 12, mm |-> <<3, 0>>, ampm |-> "am"]

(***************************************************************************)
(* Conflicts between the items themselves.                                 *)
(***************************************************************************)
\* The row a create form is stored as.
FormRow(form, id) ==
    Row(id, form.title, IsoFormat(PopupDateTime(form)), 0, "local",
        IF form.is_recurring THEN 1 ELSE 0, RepeatDaysStr(form))

\* C23: with one item B in the table, a candidate A is refused as a
\* conflict exactly when B, as a candidate with its own date and time, is
\* refused on a table that holds A alone.
C23_ConflictSymmetric ==
    (/\ last.op = "create"
     /\ last.verdict \in {"conflict", "added"}
     /\ Len(last.before) = 1) =>
        LET B == last.before[1]
            A == FormRow(last.a, B.id + 1)
            dtB == FromIsoFormat(B.start_time)
        IN  (last.verdict = "conflict")
                <=> CreateConflict(
                        get_schedule_by_date_range(<<A>>, dtB.date, dtB.date), dtB)

(***************************************************************************)
(* The columns of the month grids.                                         *)
(***************************************************************************)
\* The weekday a header label names, 0 = Monday .. 6 = Sunday.
LabelWeekday(label) ==
    CASE label = "Mo" -> 0 [] label = "Tu" -> 1 [] label = "We" -> 2
      [] label = "Th" -> 3 [] label = "Fr" -> 4 [] label = "Sa" -> 5
      [] label = "Su" -> 6

\* Every day button of the rows stands below the label of the weekday the
\* reference calendar gives its date, and every day of the month has a button.
ColumnsNameWeekdays(rows, y, m) ==
    /\ \A w \in 1..Len(rows.weeks) : \A c \in 1..7 :
          rows.weeks[w][c] # 0 =>
              LabelWeekday(rows.weekdays[c]) = RefWeekday(<<y, m, rows.weeks[w][c]>>)
    /\ {<<y, m, rows.weeks[wc[1]][wc[2]]>> :
           wc \in {x \in (1..Len(rows.weeks)) \X (1..7) :
                      rows.weeks[x[1]][x[2]] # 0}}
           = DaysOfMonth(y, m)

\* C24: in the calendar grid and in the date-picker grid alike, every day
\* cell is in the column whose header label names that date's weekday.
C24_ColumnsMatchHeader ==
    /\ last.op = "grid" => ColumnsNameWeekdays(last.msg, last.a[1], last.a[2])
    /\ last.op = "picker" => ColumnsNameWeekdays(last.out, last.a[1], last.a[2])

\* The calendar grid alone has every day button below its weekday's label.
C24_CalendarGridColumns ==
    last.op = "grid" => ColumnsNameWeekdays(last.msg, last.a[1], last.a[2])

(***************************************************************************)
(* Tasks and schedule items.                                               *)
(***************************************************************************)
\* The ids of the task list, for either status and with no limit.
ListedIds(store) ==
    UNION {{get_tasks_by_status(store, c, NoLimit)[k].id :
               k \in 1..Len(get_tasks_by_status(store, c, NoLimit))}
           : c \in BOOLEAN}

\* C25: add_schedule_item raises for an item without start_time and the
\* table stays as it was, and stores an item that has one; the task list
\* holds only rows without start_time, and all of them of the asked status;
\* every entry of a schedule view has a start_time; and, whatever table the
\* calls have left, no row of it is both in the task list and in a schedule
\* view.
C25_TaskOrScheduleItem ==
    /\ last.op = "add_schedule_item" =>
        IF last.a.kind = "null"
        THEN last.raised /\ tasks = last.before
        ELSE /\ ~last.raised
             /\ Len(tasks) = Len(last.before) + 1
             /\ tasks[Len(tasks)].start_time = last.a
    /\ last.op = "tasks" =>
        /\ \A k \in 1..Len(last.out) :
              /\ last.out[k].start_time.kind = "null"
              /\ last.out[k].completed = (IF last.a[1] THEN 1 ELSE 0)
              /\ HasId(tasks, last.out[k].id)
        /\ last.a[2] = NoLimit =>
              {last.out[k].id : k \in 1..Len(last.out)}
                  = {tasks[i].id : i \in {j \in 1..Len(tasks) :
                        /\ tasks[j].start_time.kind = "null"
                        /\ tasks[j].completed = (IF last.a[1] THEN 1 ELSE 0)}}
    /\ IsQuery => \A k \in 1..Len(last.out) : last.out[k].start_time.kind # "null"
    /\ Fresh =>
        /\ ListedIds(tasks) \cap ShownIds(tasks) = {}
        /\ \A i \in 1..Len(tasks) :
              tasks[i].id \in ListedIds(tasks) <=> tasks[i].start_time.kind = "null"

\* C25 witness: the task list is returned, not empty, from a table that
\* also holds a schedule item shown by a view and not in the list.
C25_Witness ==
    /\ last.op = "tasks"
    /\ Len(last.out) >= 1
    /\ ShownIds(tasks) # {}
    /\ Len(last.out) < Len(tasks)

(***************************************************************************)
(* The four expansions against one another.                                *)
(***************************************************************************)
\* The last date of a month of the reference calendar.
LastDateOfMonth(y, m) ==
    CHOOSE d \in DaysOfMonth(y, m) : \A e \in DaysOfMonth(y, m) : e[3] <= d[3]

\* The (title, start_time) pairs of a list of entries.
Projection(out) == [k \in 1..Len(out) |-> TitleAndTime(out[k])]

\* C26: the month query returns what the range query returns from the first
\* to the last day of the month; the full today query with limit N returns
\* the first N entries of the range query from today to today; and the short
\* today query returns the titles and times of the full one, in its order.
C26_ExpansionsAgree ==
    /\ (last.op = "month" /\ ~last.raised) =>
          last.out = get_schedule_by_date_range(tasks,
                         <<last.a[1], last.a[2], 1>>,
                         LastDateOfMonth(last.a[1], last.a[2]))
    /\ last.op = "today_full" =>
          LET whole == get_schedule_by_date_range(tasks, last.a[1], last.a[1])
          IN  /\ Len(last.out) = (IF last.a[2] < Len(whole) THEN last.a[2] ELSE Len(whole))
              /\ \A k \in 1..Len(last.out) : last.out[k] = whole[k]
    /\ last.op = "today" =>
          last.out = Projection(get_today_schedule_full(tasks, last.a[1], last.a[2]))

\* C26 witness: the full today query cut its list at the limit, the range
\* query of that date being longer and holding an instance of a weekly item
\* next to a one-shot item.
C26_Witness ==
    /\ last.op = "today_full"
    /\ LET whole == get_schedule_by_date_range(tasks, last.a[1], last.a[1])
       IN  /\ Len(last.out) < Len(whole)
           /\ \E i, j \in 1..Len(whole) :
                 whole[i].is_recurring = 1 /\ whole[j].is_recurring = 0

(***************************************************************************)
(* The table the accepted creations and edits build.                       *)
(***************************************************************************)
\* C27: in every table built from the empty one by the popup handlers and
\* the voice command, the range query of a single date never holds two
\* entries of different items with the same hour and minute.
C27_NoDoubleBooking ==
    \A d \in PopupDates :
        LET out == get_schedule_by_date_range(tasks, d, d)
        IN  \A i, j \in 1..Len(out) :
                (out[i].id # out[j].id /\ CanParse(out[i].start_time)
                                        /\ CanParse(out[j].start_time)) =>
                    ~(/\ EntryDate(out[i]) = EntryDate(out[j])
                      /\ EntryTime(out[i])[1] = EntryTime(out[j])[1]
                      /\ EntryTime(out[i])[2] = EntryTime(out[j])[2])

(***************************************************************************)
(* Suggestions near midnight.                                              *)
(***************************************************************************)
\* C29: when a voice creation is refused, no probe that lies on another
\* date than the candidate's (60 or 30 minutes before a candidate just
\* after midnight, or after one just before midnight) is among the
\* suggested times.
C29_NoSuggestionAcrossMidnight ==
    (last.op = "voice" /\ last.verdict = "conflict") =>
        LET dt == Combine(CandDate, <<CandTime[1], CandTime[2], 0>>)
        IN  \A i \in 1..Len(Offsets) :
                AddMinutes(dt, Offsets[i]).date # dt.date =>
                    \A k \in 1..Len(last.msg.suggestions) :
                        last.msg.suggestions[k] # Format12(AddMinutes(dt, Offsets[i]))

C30_NeverNegativeIdleTick ==
    /\ timer.remaining_seconds >= 0
    /\ (last.op = "tick" /\ ~last.a.is_running) => timer = last.a

(***************************************************************************)
(* The answer of a voice creation made from a background thread.           *)
(***************************************************************************)
\* C28: once the thread has returned and the callback has run, an 'Added'
\* answer was given only for an event the callback stored, and the
\* conflict message was given whenever the callback found a conflict or
\* stored nothing.
C28_ReplyAgreesWithCallback ==
    (job.pc = "returned" /\ job.callback = "done") =>
        LET stored == Len(tasks) = Len(job.before) + 1
            conflict == job.conflict_message # <<>>
        IN  /\ job.reply = "added" => stored
            /\ (conflict \/ ~stored) => job.reply = "conflict"

\* When the callback has run before the wait ends and start_time is given,
\* the answer agrees with what the callback did.
C28_CallbackFirst ==
    (job.pc = "waiting" /\ job.callback = "done" /\ ~AddRaises(job.start_time)) =>
        (job.conflict_message # <<>>) <=> (tasks = job.before)
====
